---------------------------- MODULE Spec2Model ----------------------------
(***************************************************************************)
(* Effect-style engine of the design system (effect-presets, 3d-effects),  *)
(* the hooks around it and the Card component that applies its output.     *)
(*                                                                         *)
(* Numbers are fixed point:                                                *)
(*   intensity          tenths           (1.0 is 10, 0.7 is 7)             *)
(*   px lengths         tenths of a px   (4 * intensity px is 4 * n)       *)
(*   alpha / opacity    thousandths      (0.3 * intensity is 30 * n)       *)
(*   lightness stops    tenths of a %    (l + 10 * intensity is 10l + 10n) *)
(* A CSS value (a template string of the source) is the sequence of its    *)
(* comma-separated items, each a record of the numbers interpolated into   *)
(* it; "" is the empty sequence; `${a}, ${b}` is concatenation.            *)
(***************************************************************************)
EXTENDS Integers, Sequences, FiniteSets, TLC

\* ---------------------------------------------------------------- state

VARIABLES
    last,         \* the most recent engine call: its arguments and its outcome
    pinned,       \* an earlier engine call kept for comparison
    themeColor,   \* the color the color provider currently holds
    effectPreset, \* DesignSystemProvider: effectPreset
    enable3D,     \* DesignSystemProvider: enable3D
    mode,         \* ThemeProvider: mode
    cardImpl,     \* which Card is mounted: "presets" or "legacy"
    cardProps,    \* which handlers the caller passes to Card
    elBoxShadow,  \* the Card element's style.boxShadow
    lastEvent,    \* the last pointer event on the Card: none, enter, leave
    callerCalled, \* whether the last pointer event ran a caller's handler
    registry,     \* the EFFECT_PRESETS object of the effect-presets module
    storage,      \* localStorage: the effectPreset and enable3D items
    storageEnv,   \* how localStorage behaves: ok, readonly, unavailable
    pendingEffects,  \* provider effects still to run after the last commit
    pendingPreset,   \* queued setEffectPresetState value, <<>> if none
    pendingEnable3D, \* queued setEnable3DState value, <<>> if none
    cssEnable3D,  \* the --enable-3d property of the document root
    mountStorage, \* history: what storage held when the provider mounted
    firstPassWrote,  \* history: the preset the first sync effect stored
    touched,      \* history: whether a setter was called since mount
    lastSetter,   \* history: the last provider setter call
    onServer,     \* whether this is the server render (no window)
    dataTheme,    \* the data-theme attribute of the document root
    mountAttr,    \* history: data-theme when ThemeProvider mounted
    pendingMode,  \* queued setModeState value, <<>> if none
    themeEffectPending, \* whether ThemeProvider's effect is still to run
    themeItem,    \* localStorage: the theme item
    lastSetMode,  \* history: the last value passed to setMode
    setModeOutcome,  \* history: how the last setMode call ended
    viewportWidth,   \* the viewport width in whole px
    mediaStale,   \* a media query changed since the hooks last rendered
    isMobile,     \* what useIsMobile returned at the last render
    isTablet,     \* what useIsTablet returned at the last render
    isMobileOrTablet, \* what useIsMobileOrTablet returned at the last render
    propsStyle,   \* the style prop the caller passes to Card
    elStyle,      \* the style attribute Card rendered
    hookRender    \* the last render of an effect-preset hook and its result

engineVars == <<last, pinned, themeColor>>
contextVars == <<effectPreset, enable3D, mode>>
cardVars == <<cardImpl, cardProps, elBoxShadow, lastEvent, callerCalled>>
providerVars == <<storage, storageEnv, pendingEffects, pendingPreset,
                  pendingEnable3D, cssEnable3D, mountStorage, firstPassWrote,
                  touched, lastSetter>>
themeVars == <<dataTheme, mountAttr, pendingMode, themeEffectPending,
               themeItem, lastSetMode, setModeOutcome>>
mediaVars == <<viewportWidth, mediaStale, isMobile, isTablet, isMobileOrTablet>>
shellVars == <<onServer, themeVars, mediaVars>>
renderVars == <<propsStyle, elStyle, hookRender>>
vars == <<last, pinned, themeColor, effectPreset, enable3D, mode,
          cardImpl, cardProps, elBoxShadow, lastEvent, callerCalled,
          registry, storage, storageEnv, pendingEffects, pendingPreset,
          pendingEnable3D, cssEnable3D, mountStorage, firstPassWrote, touched,
          lastSetter, onServer, dataTheme, mountAttr, pendingMode,
          themeEffectPending, themeItem, lastSetMode, setModeOutcome,
          viewportWidth, mediaStale, isMobile, isTablet, isMobileOrTablet,
          propsStyle, elStyle, hookRender>>

\* ------------------------------------------------------------------ bounds

\* Largest and (negated) smallest intensity a caller supplies, in tenths.
MaxIntensity == 30
NegIntensity == 10

Min(a, b) == IF a < b THEN a ELSE b
Max(a, b) == IF a > b THEN a ELSE b

\* Intensities the callers supply: out of range below and above, the ends of
\* the clamp range, the registry defaults and the Card's 0.7.
Intensities == {0 - NegIntensity, 0, 7, 8, 10, 16, 17, 20, MaxIntensity}

\* options: { intensity?: number }
OptionValues ==
    {[has |-> FALSE, intensity |-> 0]}
        \cup {[has |-> TRUE, intensity |-> i] : i \in Intensities}

Hues == {0, 114}
Lightnesses == {0, 5, 58, 95, 100}
Colors == {[h |-> h, s |-> 100, l |-> l] : h \in Hues, l \in Lightnesses}

\* Preset identifiers a caller can hold: the enumeration and one outside it.
EffectPreset == {"3d", "glassmorphism", "flat"}
PresetIds == EffectPreset \cup {"monochromatic"}

\* ------------------------------------------------------------ CSS values

Hsl(h, s, l10) == [fn |-> "hsl", h |-> h, s |-> s, l |-> l10]
Hsla(h, s, l10, a) == [fn |-> "hsla", h |-> h, s |-> s, l |-> l10, a |-> a]
Rgb(r, g, b) == [fn |-> "rgb", r |-> r, g |-> g, b |-> b]
Rgba(r, g, b, a) == [fn |-> "rgba", r |-> r, g |-> g, b |-> b, a |-> a]

\* linear-gradient(180deg, <top> 0%, <bottom> 100%)
LinearGradient(top, bottom) ==
    <<[fn |-> "linear-gradient", top |-> top, bottom |-> bottom]>>

\* One box-shadow layer: [inset] <lengths> <color>
Layer(inset, lens, color) == [inset |-> inset, lens |-> lens, color |-> color]

\* The "none" keyword.
NoneValue == <<[keyword |-> "none"]>>

\* A property the record does not carry.
Undefined == <<[undefined |-> TRUE]>>

\* `${a}, ${b}`
Join(a, b) == a \o b

\* JavaScript truthiness of a string-or-undefined value.
Truthy(v) == v # <<>> /\ v # Undefined

Field(r, f) == IF f \in DOMAIN r THEN r[f] ELSE Undefined

\* ------------------------------------------------------- preset registry

\* Mutant: glassmorphism registered with the 3D default intensity.
EFFECT_PRESETS_sameDefault ==
    [p \in EffectPreset |->
        CASE p = "3d" ->
                [id |-> "3d", gradient |-> TRUE, shadow |-> "strong",
                 blur |-> FALSE, intensity |-> 10]
          [] p = "glassmorphism" ->
                [id |-> "glassmorphism", gradient |-> FALSE, shadow |-> "soft",
                 blur |-> TRUE, intensity |-> 10]
          [] p = "flat" ->
                [id |-> "flat", gradient |-> FALSE, shadow |-> "none",
                 blur |-> FALSE, intensity |-> 0]]

EFFECT_PRESETS ==
    [p \in EffectPreset |->
        CASE p = "3d" ->
                [id |-> "3d", gradient |-> TRUE, shadow |-> "strong",
                 blur |-> FALSE, intensity |-> 10]
          [] p = "glassmorphism" ->
                [id |-> "glassmorphism", gradient |-> FALSE, shadow |-> "soft",
                 blur |-> TRUE, intensity |-> 8]
          [] p = "flat" ->
                [id |-> "flat", gradient |-> FALSE, shadow |-> "none",
                 blur |-> FALSE, intensity |-> 0]]

\* EFFECT_PRESETS[preset]: undefined for a key the object does not have.
ConfigDefined(preset) == preset \in DOMAIN registry

Returned(v) == [threw |-> FALSE, value |-> v]
TypeError == [threw |-> TRUE, value |-> [error |-> "TypeError"]]

\* ------------------------------------------------ colored derivations

\* Math.min(100, l + 10 * intensity) and Math.max(0, l - 10 * intensity)
\* Mutant: the top stop is not capped at 100.
gradientTopL_uncapped(l10, n) == l10 + 10 * n

gradientTopL(l10, n) == Min(1000, l10 + 10 * n)
\* Mutant: the bottom stop is not floored at 0.
gradientBottomL_unfloored(l10, n) == l10 - 10 * n

gradientBottomL(l10, n) == Max(0, l10 - 10 * n)

\* Mutant: the hover variant repeats the base coefficients.
get3DEffectStyles_hoverAsBase(color, n) ==
    LET h == color.h
        s == color.s
        l == 10 * color.l
        shadow == <<Layer(FALSE, <<0, 4 * n, 12 * n>>, Hsla(h, s, l, 30 * n)),
                    Layer(FALSE, <<0, 2 * n, 4 * n>>, Hsla(h, s, l, 20 * n))>>
        glow == <<Layer(FALSE, <<0, 0, 20 * n>>, Hsla(h, s, l, 20 * n))>>
    IN  [background |->
            LinearGradient(Hsl(h, s, gradientTopL(l, n)),
                           Hsl(h, s, gradientBottomL(l, n))),
         boxShadow |-> Join(shadow, glow),
         boxShadowHover |-> Join(shadow, glow)]

get3DEffectStyles(color, n) ==
    LET h == color.h
        s == color.s
        l == 10 * color.l
        shadow == <<Layer(FALSE, <<0, 4 * n, 12 * n>>, Hsla(h, s, l, 30 * n)),
                    Layer(FALSE, <<0, 2 * n, 4 * n>>, Hsla(h, s, l, 20 * n))>>
        glow == <<Layer(FALSE, <<0, 0, 20 * n>>, Hsla(h, s, l, 20 * n))>>
        shadowHover ==
            <<Layer(FALSE, <<0, 6 * n, 20 * n>>, Hsla(h, s, l, 40 * n)),
              Layer(FALSE, <<0, 4 * n, 8 * n>>, Hsla(h, s, l, 30 * n))>>
        glowHover == <<Layer(FALSE, <<0, 0, 30 * n>>, Hsla(h, s, l, 30 * n))>>
    IN  [background |->
            LinearGradient(Hsl(h, s, gradientTopL(l, n)),
                           Hsl(h, s, gradientBottomL(l, n))),
         boxShadow |-> Join(shadow, glow),
         boxShadowHover |-> Join(shadowHover, glowHover)]

\* 1px solid <color>
Border(color) == <<[width |-> 10, style |-> "solid", color |-> color]>>

\* Mutant: the backdrop filter only blurs.
BackdropFilter_blurOnly(blurAmount) ==
    <<[fn |-> "blur", px |-> blurAmount]>>

\* blur(<amount>px) saturate(180%) brightness(1.05)
BackdropFilter(blurAmount) ==
    <<[fn |-> "blur", px |-> blurAmount],
      [fn |-> "saturate", pct |-> 180],
      [fn |-> "brightness", v |-> 105]>>

\* Mutant: the fill opacity is not capped.
glassOpacity_uncapped(isDark, n) ==
    LET baseOpacity == IF isDark THEN 25 ELSE 20
    IN  baseOpacity * n

\* Math.min(0.4, baseOpacity * intensity)
glassOpacity(isDark, n) ==
    LET baseOpacity == IF isDark THEN 25 ELSE 20
    IN  Min(400, baseOpacity * n)

\* Mutant: the colored border alpha is not scaled by the intensity.
getGlassmorphismStyles_fixedBorder(color, isDark, n) ==
    LET h == color.h
        s == color.s
        l == 10 * color.l
        opacity == glassOpacity(isDark, n)
        blurAmount == 160 + 8 * n
        shadowOpacity == IF isDark THEN 15 * n ELSE 12 * n
        hoverShadowOpacity == IF isDark THEN 20 * n ELSE 16 * n
        borderOpacity == IF isDark THEN 400 ELSE 300
    IN  [background |-> <<Hsla(h, s, l, opacity)>>,
         boxShadow |->
            <<Layer(FALSE, <<0, 80, 320>>, Rgba(0, 0, 0, shadowOpacity)),
              Layer(TRUE, <<0, 10, 0>>,
                    Rgba(255, 255, 255, IF isDark THEN 100 ELSE 200))>>,
         boxShadowHover |->
            <<Layer(FALSE, <<0, 120, 400>>, Rgba(0, 0, 0, hoverShadowOpacity)),
              Layer(TRUE, <<0, 10, 0>>,
                    Rgba(255, 255, 255, IF isDark THEN 150 ELSE 250))>>,
         backdropFilter |-> BackdropFilter(blurAmount),
         border |-> Border(Rgba(255, 255, 255, borderOpacity))]

getGlassmorphismStyles(color, isDark, n) ==
    LET h == color.h
        s == color.s
        l == 10 * color.l
        opacity == glassOpacity(isDark, n)
        blurAmount == 160 + 8 * n
        shadowOpacity == IF isDark THEN 15 * n ELSE 12 * n
        hoverShadowOpacity == IF isDark THEN 20 * n ELSE 16 * n
        borderOpacity == IF isDark THEN 40 ELSE 30
    IN  [background |-> <<Hsla(h, s, l, opacity)>>,
         boxShadow |->
            <<Layer(FALSE, <<0, 80, 320>>, Rgba(0, 0, 0, shadowOpacity)),
              Layer(TRUE, <<0, 10, 0>>,
                    Rgba(255, 255, 255, IF isDark THEN 100 ELSE 200))>>,
         boxShadowHover |->
            <<Layer(FALSE, <<0, 120, 400>>, Rgba(0, 0, 0, hoverShadowOpacity)),
              Layer(TRUE, <<0, 10, 0>>,
                    Rgba(255, 255, 255, IF isDark THEN 150 ELSE 250))>>,
         backdropFilter |-> BackdropFilter(blurAmount),
         border |-> Border(Rgba(255, 255, 255, borderOpacity * n))]

\* Mutant: the flat hover shadow is the empty string instead of "none".
getFlatStyles_emptyHover(color) ==
    [background |-> <<Hsl(color.h, color.s, 10 * color.l)>>,
     boxShadow |-> NoneValue,
     boxShadowHover |-> <<>>]

getFlatStyles(color) ==
    [background |-> <<Hsl(color.h, color.s, 10 * color.l)>>,
     boxShadow |-> NoneValue,
     boxShadowHover |-> NoneValue]

\* ------------------------------------------------ neutral derivations

\* Mutant: in light mode the top stop is darkened as much as the bottom.
getNeutral3DEffectStyles_evenLight(isDark, n) ==
    LET baseLightness == IF isDark THEN 120 ELSE 1000
        topL == IF isDark THEN Min(1000, baseLightness + 3 * n)
                          ELSE Max(0, baseLightness - 4 * n)
        bottomL == IF isDark THEN Max(0, baseLightness - 3 * n)
                             ELSE Max(0, baseLightness - 4 * n)
        shadowOpacity == IF isDark THEN 15 * n ELSE 8 * n
        shadowSecondaryOpacity == IF isDark THEN 10 * n ELSE 5 * n
        hoverShadowOpacity == IF isDark THEN 20 * n ELSE 12 * n
        hoverShadowSecondaryOpacity == IF isDark THEN 15 * n ELSE 8 * n
    IN  [background |->
            LinearGradient(Hsl(0, 0, topL), Hsl(0, 0, bottomL)),
         boxShadow |->
            <<Layer(FALSE, <<0, 2 * n, 8 * n>>, Rgba(0, 0, 0, shadowOpacity)),
              Layer(FALSE, <<0, 1 * n, 3 * n>>,
                    Rgba(0, 0, 0, shadowSecondaryOpacity))>>,
         boxShadowHover |->
            <<Layer(FALSE, <<0, 3 * n, 12 * n>>,
                    Rgba(0, 0, 0, hoverShadowOpacity)),
              Layer(FALSE, <<0, 2 * n, 6 * n>>,
                    Rgba(0, 0, 0, hoverShadowSecondaryOpacity))>>]

getNeutral3DEffectStyles(isDark, n) ==
    LET baseLightness == IF isDark THEN 120 ELSE 1000
        topL == IF isDark THEN Min(1000, baseLightness + 3 * n)
                          ELSE Max(0, baseLightness - 2 * n)
        bottomL == IF isDark THEN Max(0, baseLightness - 3 * n)
                             ELSE Max(0, baseLightness - 4 * n)
        shadowOpacity == IF isDark THEN 15 * n ELSE 8 * n
        shadowSecondaryOpacity == IF isDark THEN 10 * n ELSE 5 * n
        hoverShadowOpacity == IF isDark THEN 20 * n ELSE 12 * n
        hoverShadowSecondaryOpacity == IF isDark THEN 15 * n ELSE 8 * n
    IN  [background |->
            LinearGradient(Hsl(0, 0, topL), Hsl(0, 0, bottomL)),
         boxShadow |->
            <<Layer(FALSE, <<0, 2 * n, 8 * n>>, Rgba(0, 0, 0, shadowOpacity)),
              Layer(FALSE, <<0, 1 * n, 3 * n>>,
                    Rgba(0, 0, 0, shadowSecondaryOpacity))>>,
         boxShadowHover |->
            <<Layer(FALSE, <<0, 3 * n, 12 * n>>,
                    Rgba(0, 0, 0, hoverShadowOpacity)),
              Layer(FALSE, <<0, 2 * n, 6 * n>>,
                    Rgba(0, 0, 0, hoverShadowSecondaryOpacity))>>]

\* Mutant: the neutral inset highlight is scaled by the intensity.
getNeutralGlassmorphismStyles_scaledHighlight(isDark, n) ==
    LET blurAmount == 160 + 8 * n
        shadowOpacity == IF isDark THEN 15 * n ELSE 12 * n
        hoverShadowOpacity == IF isDark THEN 20 * n ELSE 16 * n
        borderOpacity == IF isDark THEN 40 * n ELSE 30 * n
    IN  [background |-> <<Rgba(255, 255, 255, 50)>>,
         boxShadow |->
            <<Layer(FALSE, <<0, 80, 320>>, Rgba(0, 0, 0, shadowOpacity)),
              Layer(TRUE, <<0, 10, 0>>,
                    Rgba(255, 255, 255, IF isDark THEN 10 * n ELSE 20 * n))>>,
         boxShadowHover |->
            <<Layer(FALSE, <<0, 120, 400>>, Rgba(0, 0, 0, hoverShadowOpacity)),
              Layer(TRUE, <<0, 10, 0>>,
                    Rgba(255, 255, 255, IF isDark THEN 15 * n ELSE 25 * n))>>,
         backdropFilter |-> BackdropFilter(blurAmount),
         border |-> Border(Rgba(255, 255, 255, borderOpacity))]

getNeutralGlassmorphismStyles(isDark, n) ==
    LET blurAmount == 160 + 8 * n
        shadowOpacity == IF isDark THEN 15 * n ELSE 12 * n
        hoverShadowOpacity == IF isDark THEN 20 * n ELSE 16 * n
        borderOpacity == IF isDark THEN 40 * n ELSE 30 * n
    IN  [background |-> <<Rgba(255, 255, 255, 50)>>,
         boxShadow |->
            <<Layer(FALSE, <<0, 80, 320>>, Rgba(0, 0, 0, shadowOpacity)),
              Layer(TRUE, <<0, 10, 0>>,
                    Rgba(255, 255, 255, IF isDark THEN 100 ELSE 200))>>,
         boxShadowHover |->
            <<Layer(FALSE, <<0, 120, 400>>, Rgba(0, 0, 0, hoverShadowOpacity)),
              Layer(TRUE, <<0, 10, 0>>,
                    Rgba(255, 255, 255, IF isDark THEN 150 ELSE 250))>>,
         backdropFilter |-> BackdropFilter(blurAmount),
         border |-> Border(Rgba(255, 255, 255, borderOpacity))]

\* Mutant: the neutral flat fill is tinted with the current theme hue.
getNeutralFlatStyles_themed(isDark) ==
    [background |-> <<IF isDark THEN Hsl(themeColor.h, 0, 90)
                      ELSE Hsl(themeColor.h, 0, 1000)>>,
     boxShadow |-> NoneValue,
     boxShadowHover |-> NoneValue]

getNeutralFlatStyles(isDark) ==
    [background |-> <<IF isDark THEN Rgb(23, 23, 23) ELSE Rgb(255, 255, 255)>>,
     boxShadow |-> NoneValue,
     boxShadowHover |-> NoneValue]

\* ------------------------------------------------------------- dispatch

\* options.intensity ?? config.intensity: reading .intensity of an undefined
\* config throws; the right operand is evaluated only without an override.
\* Mutant: options.intensity || default, which discards a supplied 0.
Nullish_falsy(options, default) ==
    IF options.has /\ options.intensity # 0 THEN options.intensity ELSE default

Nullish(options, default) ==
    IF options.has THEN options.intensity ELSE default

getEffectStyles(preset, color, isDark, options) ==
    IF ~options.has /\ ~ConfigDefined(preset)
    THEN TypeError
    ELSE LET intensity == Nullish(options, registry[preset].intensity)
         IN  Returned(
                CASE preset = "3d" -> get3DEffectStyles(color, intensity)
                  [] preset = "glassmorphism" ->
                        getGlassmorphismStyles(color, isDark, intensity)
                  [] preset = "flat" -> getFlatStyles(color)
                  [] OTHER -> getFlatStyles(color))

\* Mutant: the neutral dispatch clamps the intensity to [0,2] before use.
getNeutralEffectStyles_clamped(preset, isDark, options) ==
    IF ~options.has /\ ~ConfigDefined(preset)
    THEN TypeError
    ELSE LET intensity ==
                Max(0, Min(20, Nullish(options, registry[preset].intensity)))
         IN  Returned(
                CASE preset = "3d" -> getNeutral3DEffectStyles(isDark, intensity)
                  [] preset = "glassmorphism" ->
                        getNeutralGlassmorphismStyles(isDark, intensity)
                  [] preset = "flat" -> getNeutralFlatStyles(isDark)
                  [] OTHER -> getNeutralFlatStyles(isDark))

getNeutralEffectStyles(preset, isDark, options) ==
    IF ~options.has /\ ~ConfigDefined(preset)
    THEN TypeError
    ELSE LET intensity == Nullish(options, registry[preset].intensity)
         IN  Returned(
                CASE preset = "3d" -> getNeutral3DEffectStyles(isDark, intensity)
                  [] preset = "glassmorphism" ->
                        getNeutralGlassmorphismStyles(isDark, intensity)
                  [] preset = "flat" -> getNeutralFlatStyles(isDark)
                  [] OTHER -> getNeutralFlatStyles(isDark))

\* ---------------------------------------------------- legacy 3D module

\* Mutant: the clamp range is [0,1].
clampedIntensity_toOne(options, default) ==
    Max(0, Min(10, Nullish(options, default)))

\* Math.max(0, Math.min(2, options.intensity ?? default))
clampedIntensity(options, default) ==
    Max(0, Min(20, Nullish(options, default)))

get3DEffects(h, s, l, options) ==
    LET n == clampedIntensity(options, 10)
        l10 == 10 * l
        topL == Min(1000, l10 + 10 * n)
        bottomL == Max(0, l10 - 10 * n)
        shadowOpacity == 30 * n
        shadowSecondaryOpacity == 20 * n
        glowOpacity == 20 * n
        hoverShadowOpacity == 40 * n
        hoverShadowSecondaryOpacity == 30 * n
        hoverGlowOpacity == 30 * n
    IN  Returned(
          [gradient |->
              LinearGradient(Hsl(h, s, topL), Hsl(h, s, bottomL)),
           shadow |->
              <<Layer(FALSE, <<0, 4 * n, 12 * n>>,
                      Hsla(h, s, l10, shadowOpacity)),
                Layer(FALSE, <<0, 2 * n, 4 * n>>,
                      Hsla(h, s, l10, shadowSecondaryOpacity))>>,
           glow |->
              <<Layer(FALSE, <<0, 0, 20 * n>>, Hsla(h, s, l10, glowOpacity))>>,
           shadowHover |->
              <<Layer(FALSE, <<0, 6 * n, 20 * n>>,
                      Hsla(h, s, l10, hoverShadowOpacity)),
                Layer(FALSE, <<0, 4 * n, 8 * n>>,
                      Hsla(h, s, l10, hoverShadowSecondaryOpacity))>>,
           glowHover |->
              <<Layer(FALSE, <<0, 0, 30 * n>>,
                      Hsla(h, s, l10, hoverGlowOpacity))>>])

\* Mutant: the neutral variant carries a glow layer like the colored one.
get3DEffectsNeutral_glowing(isDark, options) ==
    LET n == clampedIntensity(options, 7)
        baseLightness == IF isDark THEN 120 ELSE 1000
        topL == IF isDark THEN Min(1000, baseLightness + 3 * n)
                          ELSE Max(0, baseLightness - 2 * n)
        bottomL == IF isDark THEN Max(0, baseLightness - 3 * n)
                             ELSE Max(0, baseLightness - 4 * n)
        shadowOpacity == IF isDark THEN 15 * n ELSE 8 * n
        shadowSecondaryOpacity == IF isDark THEN 10 * n ELSE 5 * n
        hoverShadowOpacity == IF isDark THEN 20 * n ELSE 12 * n
        hoverShadowSecondaryOpacity == IF isDark THEN 15 * n ELSE 8 * n
    IN  Returned(
          [gradient |->
              LinearGradient(Hsl(0, 0, topL), Hsl(0, 0, bottomL)),
           shadow |->
              <<Layer(FALSE, <<0, 2 * n, 8 * n>>, Rgba(0, 0, 0, shadowOpacity)),
                Layer(FALSE, <<0, 1 * n, 3 * n>>,
                      Rgba(0, 0, 0, shadowSecondaryOpacity))>>,
           glow |-> <<Layer(FALSE, <<0, 0, 20 * n>>, Rgba(0, 0, 0, 20 * n))>>,
           shadowHover |->
              <<Layer(FALSE, <<0, 3 * n, 12 * n>>,
                      Rgba(0, 0, 0, hoverShadowOpacity)),
                Layer(FALSE, <<0, 2 * n, 6 * n>>,
                      Rgba(0, 0, 0, hoverShadowSecondaryOpacity))>>,
           glowHover |-> <<Layer(FALSE, <<0, 0, 30 * n>>, Rgba(0, 0, 0, 30 * n))>>])

get3DEffectsNeutral(isDark, options) ==
    LET n == clampedIntensity(options, 7)
        baseLightness == IF isDark THEN 120 ELSE 1000
        topL == IF isDark THEN Min(1000, baseLightness + 3 * n)
                          ELSE Max(0, baseLightness - 2 * n)
        bottomL == IF isDark THEN Max(0, baseLightness - 3 * n)
                             ELSE Max(0, baseLightness - 4 * n)
        shadowOpacity == IF isDark THEN 15 * n ELSE 8 * n
        shadowSecondaryOpacity == IF isDark THEN 10 * n ELSE 5 * n
        hoverShadowOpacity == IF isDark THEN 20 * n ELSE 12 * n
        hoverShadowSecondaryOpacity == IF isDark THEN 15 * n ELSE 8 * n
    IN  Returned(
          [gradient |->
              LinearGradient(Hsl(0, 0, topL), Hsl(0, 0, bottomL)),
           shadow |->
              <<Layer(FALSE, <<0, 2 * n, 8 * n>>, Rgba(0, 0, 0, shadowOpacity)),
                Layer(FALSE, <<0, 1 * n, 3 * n>>,
                      Rgba(0, 0, 0, shadowSecondaryOpacity))>>,
           glow |-> <<>>,
           shadowHover |->
              <<Layer(FALSE, <<0, 3 * n, 12 * n>>,
                      Rgba(0, 0, 0, hoverShadowOpacity)),
                Layer(FALSE, <<0, 2 * n, 6 * n>>,
                      Rgba(0, 0, 0, hoverShadowSecondaryOpacity))>>,
           glowHover |-> <<>>])

\* ---------------------------------------------------------------- hooks

Null == [null |-> TRUE]

\* useEffectPresets, with the context values it reads as parameters.
useEffectPresets(preset, color, isDark, options) ==
    LET out == getEffectStyles(preset, color, isDark, options)
        styles == out.value
        isEnabled == preset # "flat"
    IN  IF out.threw THEN out
        ELSE Returned(
          [styles |-> IF isEnabled THEN styles ELSE Null,
           isEnabled |-> isEnabled,
           boxShadow |-> styles.boxShadow,
           boxShadowHover |-> styles.boxShadowHover,
           background |-> styles.background,
           backdropFilter |-> Field(styles, "backdropFilter"),
           border |-> Field(styles, "border")])

\* useNeutralEffectPresets, with the context values it reads as parameters.
useNeutralEffectPresets(preset, isDark, options) ==
    LET out == getNeutralEffectStyles(preset, isDark, options)
        styles == out.value
        isEnabled == preset # "flat"
    IN  IF out.threw THEN out
        ELSE Returned(
          [styles |-> IF isEnabled THEN styles ELSE Null,
           isEnabled |-> isEnabled,
           boxShadow |-> styles.boxShadow,
           boxShadowHover |-> styles.boxShadowHover,
           background |-> styles.background,
           backdropFilter |-> Field(styles, "backdropFilter"),
           border |-> Field(styles, "border")])

\* use3DEffectsNeutral, with the enable3D it reads from context as parameter.
use3DEffectsNeutral(enabled, isDark, options) ==
    IF ~enabled
    THEN [effects |-> Null, isEnabled |-> FALSE,
          boxShadow |-> NoneValue, boxShadowHover |-> NoneValue]
    ELSE LET effects == get3DEffectsNeutral(isDark, options).value
         IN  [effects |-> effects, isEnabled |-> TRUE,
              boxShadow |->
                 IF Truthy(effects.shadow) THEN effects.shadow ELSE NoneValue,
              boxShadowHover |->
                 IF Truthy(effects.shadowHover) THEN effects.shadowHover
                 ELSE NoneValue]

\* ----------------------------------------------------------------- Card

\* The options both Card versions pass to their hook: { intensity: 0.7 }
CardOptions == [has |-> TRUE, intensity |-> 7]

\* What one render of Card computes: whether effects apply and the base and
\* hover box-shadow its handlers assign.  impl "presets" is card.tsx, impl
\* "legacy" the earlier Card built on use3DEffectsNeutral.
CardRender(impl, preset, enabled, isDark) ==
    IF impl = "presets"
    THEN LET hook == useNeutralEffectPresets(preset, isDark, CardOptions).value
             shouldApplyEffects == hook.isEnabled /\ hook.styles # Null
             insetBorderShadow ==
                IF shouldApplyEffects /\ ~Truthy(Field(hook.styles, "border"))
                THEN IF isDark
                     THEN <<Layer(TRUE, <<0, 10, 0, 0>>, Rgba(255, 255, 255, 200)),
                            Layer(TRUE, <<0, -10, 0, 0>>, Rgba(0, 0, 0, 300)),
                            Layer(TRUE, <<0, 0, 0, 10>>, Rgba(255, 255, 255, 80))>>
                     ELSE <<Layer(TRUE, <<0, 10, 0, 0>>, Rgba(255, 255, 255, 800)),
                            Layer(TRUE, <<0, -10, 0, 0>>, Rgba(0, 0, 0, 100)),
                            Layer(TRUE, <<0, 0, 0, 10>>, Rgba(0, 0, 0, 60))>>
                ELSE <<>>
             combinedShadow ==
                IF shouldApplyEffects /\ Truthy(insetBorderShadow)
                THEN Join(hook.boxShadow, insetBorderShadow)
                ELSE hook.boxShadow
             combinedShadowHover ==
                IF shouldApplyEffects /\ Truthy(insetBorderShadow)
                THEN Join(hook.boxShadowHover, insetBorderShadow)
                ELSE hook.boxShadowHover
         IN  [apply |-> shouldApplyEffects,
              base |-> combinedShadow,
              hover |-> combinedShadowHover]
    ELSE LET hook == use3DEffectsNeutral(enabled, isDark, CardOptions)
             shouldApply3D ==
                hook.isEnabled /\ enabled /\ hook.effects # Null
         IN  [apply |-> shouldApply3D,
              base |-> hook.boxShadow,
              hover |-> hook.boxShadowHover]

\* ------------------------------------------------------- Card, its style

\* A style object: a function from property names to CSS values.
EmptyStyle == [k \in {} |-> <<>>]

\* <Card> without a style prop.
NoStyle == [passed |-> FALSE, style |-> EmptyStyle]

\* { ...a, ...b }: the later object wins on a shared key.
ObjectSpread(a, b) ==
    [k \in DOMAIN a \cup DOMAIN b |-> IF k \in DOMAIN b THEN b[k] ELSE a[k]]

\* ...(cond ? { key: value } : {})
SpreadIf(cond, key, value) == IF cond THEN key :> value ELSE EmptyStyle

\* ...props.style: nothing when the caller passes no style.
PropsStyle(props) == IF props.passed THEN props.style ELSE EmptyStyle

Keyword(k) == <<[keyword |-> k]>>

\* The object literal Card writes into its style attribute, given what its
\* hook returned and what it rendered.
PresetsCardStyle(h, r, props) ==
    ObjectSpread(ObjectSpread(ObjectSpread(ObjectSpread(ObjectSpread(
        [borderRadius |-> Keyword("var(--border-radius)")],
        PropsStyle(props)),
        SpreadIf(r.apply /\ Truthy(h.background), "background", h.background)),
        SpreadIf(r.apply, "boxShadow", r.base)),
        SpreadIf(r.apply /\ Truthy(h.backdropFilter),
                 "backdropFilter", h.backdropFilter)),
        SpreadIf(r.apply /\ Truthy(h.border), "border", h.border))

\* borderStyle of the legacy Card: a lighter top and a darker bottom edge.
LegacyBorderStyle(shouldApply3D, isDark) ==
    IF shouldApply3D
    THEN [borderTop |->
             Border(IF isDark THEN Rgba(255, 255, 255, 150)
                    ELSE Rgba(0, 0, 0, 80)),
          borderRight |->
             Border(IF isDark THEN Rgba(255, 255, 255, 100)
                    ELSE Rgba(0, 0, 0, 100)),
          borderBottom |->
             Border(IF isDark THEN Rgba(255, 255, 255, 50)
                    ELSE Rgba(0, 0, 0, 120)),
          borderLeft |->
             Border(IF isDark THEN Rgba(255, 255, 255, 100)
                    ELSE Rgba(0, 0, 0, 100))]
    ELSE EmptyStyle

\* The object literal of the legacy Card: the caller's style comes last.
LegacyCardStyle(h, shouldApply3D, isDark, props) ==
    ObjectSpread(ObjectSpread(ObjectSpread(ObjectSpread(
        [borderRadius |-> Keyword("var(--border-radius)")],
        IF shouldApply3D
        THEN "background" :> h.effects.gradient ELSE EmptyStyle),
        SpreadIf(shouldApply3D, "boxShadow", h.boxShadow)),
        LegacyBorderStyle(shouldApply3D, isDark)),
        PropsStyle(props))

LegacyShouldApply3D(h, enabled) ==
    h.isEnabled /\ enabled /\ h.effects # Null

CardBuiltStyle(impl, preset, enabled, isDark, props) ==
    IF impl = "presets"
    THEN PresetsCardStyle(
            useNeutralEffectPresets(preset, isDark, CardOptions).value,
            CardRender(impl, preset, enabled, isDark), props)
    ELSE LegacyCardStyle(
            use3DEffectsNeutral(enabled, isDark, CardOptions),
            LegacyShouldApply3D(
                use3DEffectsNeutral(enabled, isDark, CardOptions), enabled),
            isDark, props)

\* <div style={...} ... {...props} />: props comes last in the attribute
\* list, so a style among props replaces the style attribute written before.
CardStyle(impl, preset, enabled, isDark, props) ==
    IF props.passed THEN props.style
    ELSE CardBuiltStyle(impl, preset, enabled, isDark, props)

\* element.style.boxShadow for a rendered style attribute.
StyleBoxShadow(style) ==
    IF "boxShadow" \in DOMAIN style THEN style["boxShadow"] ELSE <<>>

\* ------------------------------------------------------------ call records

NoColor == [h |-> 0, s |-> 0, l |-> 0]
DefaultColor == [h |-> 114, s |-> 100, l |-> 58]
NoOptions == [has |-> FALSE, intensity |-> 0]

\* A call: its arguments, its outcome, and the theme color that was current.
Call(fn, preset, color, isDark, options, out) ==
    [fn |-> fn, preset |-> preset, color |-> color, isDark |-> isDark,
     options |-> options, out |-> out, theme |-> themeColor]

NoCall ==
    [fn |-> "none", preset |-> "flat", color |-> NoColor, isDark |-> FALSE,
     options |-> NoOptions, out |-> Returned(<<>>), theme |-> NoColor]

\* The arguments of a call, without its outcome.
Key(c) == [fn |-> c.fn, preset |-> c.preset, color |-> c.color,
           isDark |-> c.isDark, options |-> c.options]

\* --------------------------------------------------------- engine calls

CallGetEffectStyles ==
    \E preset \in PresetIds, color \in Colors, isDark \in BOOLEAN,
       options \in OptionValues :
        /\ last' = Call("getEffectStyles", preset, color, isDark, options,
                        getEffectStyles(preset, color, isDark, options))
        /\ UNCHANGED <<pinned, themeColor, contextVars, cardVars, shellVars, renderVars, registry,
                       providerVars>>

CallGetNeutralEffectStyles ==
    \E preset \in PresetIds, isDark \in BOOLEAN, options \in OptionValues :
        /\ last' = Call("getNeutralEffectStyles", preset, NoColor, isDark,
                        options, getNeutralEffectStyles(preset, isDark, options))
        /\ UNCHANGED <<pinned, themeColor, contextVars, cardVars, shellVars, renderVars, registry,
                       providerVars>>

CallGet3DEffects ==
    \E color \in Colors, options \in OptionValues :
        /\ last' = Call("get3DEffects", "3d", color, FALSE, options,
                        get3DEffects(color.h, color.s, color.l, options))
        /\ UNCHANGED <<pinned, themeColor, contextVars, cardVars, shellVars, renderVars, registry,
                       providerVars>>

CallGet3DEffectsNeutral ==
    \E isDark \in BOOLEAN, options \in OptionValues :
        /\ last' = Call("get3DEffectsNeutral", "3d", NoColor, isDark, options,
                        get3DEffectsNeutral(isDark, options))
        /\ UNCHANGED <<pinned, themeColor, contextVars, cardVars, shellVars, renderVars, registry,
                       providerVars>>

\* ----------------------------------------------------- provider storage

\* localStorage.getItem of a key that is not there returns null.
Missing == "(null)"

\* Boolean.prototype.toString
BoolString(b) == IF b THEN "true" ELSE "false"

EmptyStorage == [effectPreset |-> Missing, enable3D |-> Missing]

\* ok: reads and writes work.  readonly: setItem throws (quota, private
\* browsing).  unavailable: every access throws, nothing is stored.
StorageEnvs == {"ok", "readonly", "unavailable"}

\* What the sync effect leaves in storage for a preset.
Persisted(preset) ==
    [effectPreset |-> preset, enable3D |-> BoolString(preset = "3d")]

\* A provider at rest on a preset: nothing queued, storage written by its
\* sync effect.
ProviderAtRest(preset) ==
    /\ registry = EFFECT_PRESETS
    /\ storage = Persisted(preset)
    /\ storageEnv = "ok"
    /\ pendingEffects = <<>>
    /\ pendingPreset = <<>>
    /\ pendingEnable3D = <<>>
    /\ cssEnable3D = IF preset = "3d" THEN "1" ELSE "0"
    /\ mountStorage = Persisted(preset)
    /\ firstPassWrote = "3d"
    /\ touched = FALSE
    /\ lastSetter = "(none)"

NoHook == [fn |-> "none", preset |-> "flat", color |-> NoColor,
           isDark |-> FALSE, options |-> NoOptions, out |-> Returned(<<>>)]

\* The client after hydration under a theme, on a desktop viewport, with no
\* hook rendered yet.
ShellAtRest(theme) ==
    /\ onServer = FALSE
    /\ dataTheme = theme
    /\ mountAttr = theme
    /\ pendingMode = <<>>
    /\ themeEffectPending = FALSE
    /\ themeItem = Missing
    /\ lastSetMode = "(none)"
    /\ setModeOutcome = "(none)"
    /\ viewportWidth = 1440
    /\ mediaStale = FALSE
    /\ isMobile = FALSE
    /\ isTablet = FALSE
    /\ isMobileOrTablet = FALSE
    /\ hookRender = NoHook

\* The provider's defaults and an unmounted Card.
NoProps == [onMouseEnter |-> FALSE, onMouseLeave |-> FALSE]

Init ==
    /\ last = NoCall
    /\ pinned = NoCall
    /\ themeColor = DefaultColor
    /\ effectPreset = "3d"
    /\ enable3D = TRUE
    /\ mode = "light"
    /\ cardImpl = "presets"
    /\ cardProps = NoProps
    /\ elBoxShadow = <<>>
    /\ lastEvent = "none"
    /\ callerCalled = FALSE
    /\ ProviderAtRest("3d")
    /\ ShellAtRest("light")
    /\ propsStyle = NoStyle
    /\ elStyle = EmptyStyle

Next ==
    \/ CallGetEffectStyles
    \/ CallGetNeutralEffectStyles
    \/ CallGet3DEffects
    \/ CallGet3DEffectsNeutral

Spec == Init /\ [][Next]_vars

\* ------------------------------------------------------ Card, mounted

Render == CardRender(cardImpl, effectPreset, enable3D, mode = "dark")

\* <div onMouseEnter={handleMouseEnter} ... {...props} />: a handler among
\* props comes later in the attribute list and replaces the Card's own.
PointerEnter ==
    /\ lastEvent' = "enter"
    /\ IF cardProps.onMouseEnter
       THEN /\ callerCalled' = TRUE
            /\ UNCHANGED elBoxShadow
       ELSE /\ elBoxShadow' = IF Render.apply /\ Truthy(Render.hover)
                              THEN Render.hover
                              ELSE elBoxShadow
            /\ callerCalled' = FALSE
    /\ UNCHANGED <<engineVars, contextVars, cardImpl, cardProps, shellVars, renderVars, registry,
                   providerVars>>

PointerLeave ==
    /\ lastEvent' = "leave"
    /\ IF cardProps.onMouseLeave
       THEN /\ callerCalled' = TRUE
            /\ UNCHANGED elBoxShadow
       ELSE /\ elBoxShadow' = IF Render.apply /\ Truthy(Render.base)
                              THEN Render.base
                              ELSE elBoxShadow
            /\ callerCalled' = FALSE
    /\ UNCHANGED <<engineVars, contextVars, cardImpl, cardProps, shellVars, renderVars, registry,
                   providerVars>>

\* A Card mounted under a settled provider and theme; the element carries
\* the rendered style: boxShadow only when effects apply.
InitCard ==
    /\ last = NoCall
    /\ pinned = NoCall
    /\ themeColor = DefaultColor
    /\ effectPreset \in PresetIds
    /\ enable3D = (effectPreset = "3d")
    /\ ProviderAtRest(effectPreset)
    /\ mode \in {"dark", "light"}
    /\ cardImpl \in {"presets", "legacy"}
    /\ cardProps \in [onMouseEnter : BOOLEAN, onMouseLeave : BOOLEAN]
    /\ elBoxShadow = IF Render.apply THEN Render.base ELSE <<>>
    /\ lastEvent = "none"
    /\ callerCalled = FALSE
    /\ ShellAtRest(mode)
    /\ propsStyle = NoStyle
    /\ elStyle = CardStyle(cardImpl, effectPreset, enable3D, mode = "dark",
                           propsStyle)

NextCard ==
    \/ PointerEnter
    \/ PointerLeave

SpecCard == InitCard /\ [][NextCard]_vars

\* ------------------------------------------------ theme and viewport

\* document.documentElement.getAttribute("data-theme") as the inline script
\* or the markup left it; null when the attribute is absent.
ThemeAttributes == {"dark", "light", "sepia", Missing}

ThemeModes == {"dark", "light"}

\* getInitialTheme: without a window there is no document to read.
getInitialTheme(server, attribute) ==
    IF ~server /\ attribute \in {"dark", "light"} THEN attribute ELSE "light"

\* Viewport widths in whole pixels, around both breakpoints.
Widths == {320, 767, 768, 769, 1023, 1024, 1025, 1440}

MaxWidth(px) == [feature |-> "max-width", px |-> px]

\* window.matchMedia(query).matches
matchMedia(query, width) == width <= query.px

\* useSyncExternalStore(subscribe, getSnapshot, getServerSnapshot): the server
\* snapshot on the server and in the render that hydrates server markup, the
\* client snapshot otherwise.
useMediaQuery(query, server, hydration, width) ==
    IF server \/ hydration THEN FALSE ELSE matchMedia(query, width)

useIsMobile(server, hydration, width) ==
    useMediaQuery(MaxWidth(768), server, hydration, width)

\* Mutant: the tablet hook does not exclude mobile widths.
useIsTablet_orSmaller(server, hydration, width) ==
    useMediaQuery(MaxWidth(1024), server, hydration, width)

useIsTablet(server, hydration, width) ==
    LET mobile == useIsMobile(server, hydration, width)
        isTabletOrSmaller ==
            useMediaQuery(MaxWidth(1024), server, hydration, width)
    IN  ~mobile /\ isTabletOrSmaller

useIsMobileOrTablet(server, hydration, width) ==
    useMediaQuery(MaxWidth(1024), server, hydration, width)

\* The three hooks rendered together.
MediaHooksRender(server, hydration, width) ==
    /\ isMobile' = useIsMobile(server, hydration, width)
    /\ isTablet' = useIsTablet(server, hydration, width)
    /\ isMobileOrTablet' = useIsMobileOrTablet(server, hydration, width)

\* Mutant: no try / catch around localStorage.setItem.
SetMode_uncaught ==
    \E newMode \in ThemeModes :
        /\ ~onServer
        /\ pendingMode' = <<newMode>>
        /\ lastSetMode' = newMode
        /\ IF storageEnv = "ok"
           THEN themeItem' = newMode /\ setModeOutcome' = "returned"
           ELSE setModeOutcome' = "threw" /\ UNCHANGED themeItem
        /\ UNCHANGED <<engineVars, contextVars, cardVars, renderVars, registry,
                       providerVars, onServer, dataTheme, mountAttr,
                       themeEffectPending, mediaVars>>

\* setMode(newMode): the state update is queued, then the item is written;
\* a throwing localStorage is swallowed.
SetMode ==
    \E newMode \in ThemeModes :
        /\ ~onServer
        /\ pendingMode' = <<newMode>>
        /\ lastSetMode' = newMode
        /\ setModeOutcome' = "returned"
        /\ IF storageEnv = "ok"
           THEN themeItem' = newMode
           ELSE UNCHANGED themeItem
        /\ UNCHANGED <<engineVars, contextVars, cardVars, renderVars, registry,
                       providerVars, onServer, dataTheme, mountAttr,
                       themeEffectPending, mediaVars>>

\* ThemeProvider renders with the queued mode; its effect is scheduled when
\* the mode differs from the previous render's.
RenderTheme ==
    /\ ~onServer
    /\ ~themeEffectPending
    /\ pendingMode # <<>>
    /\ mode' = pendingMode[1]
    /\ pendingMode' = <<>>
    /\ themeEffectPending' = (mode' # mode)
    /\ UNCHANGED <<engineVars, effectPreset, enable3D, cardVars, renderVars,
                   registry, providerVars, onServer, dataTheme, mountAttr,
                   themeItem, lastSetMode, setModeOutcome, mediaVars>>

\* useEffect(() => setAttribute("data-theme", mode), [mode])
RunThemeEffect ==
    /\ ~onServer
    /\ themeEffectPending
    /\ dataTheme' = mode
    /\ themeEffectPending' = FALSE
    /\ UNCHANGED <<engineVars, contextVars, cardVars, renderVars, registry,
                   providerVars, onServer, mountAttr, pendingMode, themeItem,
                   lastSetMode, setModeOutcome, mediaVars>>

\* After hydrating with the server snapshot, the hooks render again with the
\* client snapshot.
RenderMedia ==
    /\ ~onServer
    /\ mediaStale
    /\ mediaStale' = FALSE
    /\ MediaHooksRender(FALSE, FALSE, viewportWidth)
    /\ UNCHANGED <<engineVars, contextVars, cardVars, renderVars, registry,
                   providerVars, onServer, themeVars, viewportWidth>>

\* The viewport is resized.  Subscribed hooks render again on the change
\* event; hooks still waiting for their client render are not subscribed yet.
Resize ==
    \E width \in Widths \ {viewportWidth} :
        /\ ~onServer
        /\ viewportWidth' = width
        /\ MediaHooksRender(FALSE, mediaStale, width)
        /\ UNCHANGED <<engineVars, contextVars, cardVars, renderVars, registry,
                       providerVars, onServer, themeVars, mediaStale>>

\* The providers and hooks at their first render: on the server, hydrating
\* server markup on the client, or mounted on the client.
InitShell ==
    /\ last = NoCall
    /\ pinned = NoCall
    /\ themeColor = DefaultColor
    /\ effectPreset = "3d"
    /\ enable3D = TRUE
    /\ cardImpl = "presets"
    /\ cardProps = NoProps
    /\ elBoxShadow = <<>>
    /\ lastEvent = "none"
    /\ callerCalled = FALSE
    /\ registry = EFFECT_PRESETS
    /\ storage = Persisted("3d")
    /\ storageEnv \in StorageEnvs
    /\ pendingEffects = <<>>
    /\ pendingPreset = <<>>
    /\ pendingEnable3D = <<>>
    /\ cssEnable3D = "1"
    /\ mountStorage = Persisted("3d")
    /\ firstPassWrote = "3d"
    /\ touched = FALSE
    /\ lastSetter = "(none)"
    /\ propsStyle = NoStyle
    /\ elStyle = EmptyStyle
    /\ hookRender = NoHook
    /\ onServer \in BOOLEAN
    /\ mountAttr \in (IF onServer THEN {Missing} ELSE ThemeAttributes)
    /\ dataTheme = mountAttr
    /\ mode = getInitialTheme(onServer, mountAttr)
    /\ pendingMode = <<>>
    /\ themeEffectPending = ~onServer
    /\ themeItem = Missing
    /\ lastSetMode = "(none)"
    /\ setModeOutcome = "(none)"
    /\ viewportWidth \in Widths
    /\ mediaStale \in (IF onServer THEN {FALSE} ELSE BOOLEAN)
    /\ isMobile = useIsMobile(onServer, mediaStale, viewportWidth)
    /\ isTablet = useIsTablet(onServer, mediaStale, viewportWidth)
    /\ isMobileOrTablet = useIsMobileOrTablet(onServer, mediaStale, viewportWidth)

NextShell ==
    \/ SetMode
    \/ RenderTheme
    \/ RunThemeEffect
    \/ RenderMedia
    \/ Resize

SpecShell == InitShell /\ [][NextShell]_vars

\* No queued mode and no effect left to run.
ThemeSettled == ~onServer /\ pendingMode = <<>> /\ ~themeEffectPending

\* ------------------------------------------- Card, rendered with a style

Padding == [padding |-> Keyword("8px")]

\* What a caller passes as style: nothing, an empty object, keys the Card
\* does not set, and keys it does.
CallerStyles ==
    {NoStyle}
      \cup {[passed |-> TRUE, style |-> st] :
              st \in {EmptyStyle,
                      Padding,
                      [padding |-> Keyword("8px"), background |-> Keyword("red")],
                      [boxShadow |-> NoneValue,
                       borderRadius |-> Keyword("0")],
                      [border |-> Keyword("2px dashed"),
                       backdropFilter |-> NoneValue,
                       color |-> Keyword("blue")]}}

\* The caller renders Card again with another style prop.  React writes the
\* style properties that differ from the previous render to the element.
CallerRerenders ==
    \E props \in CallerStyles \ {propsStyle} :
        /\ propsStyle' = props
        /\ elStyle' = CardStyle(cardImpl, effectPreset, enable3D, mode = "dark",
                                props)
        /\ elBoxShadow' = IF StyleBoxShadow(elStyle') = StyleBoxShadow(elStyle)
                          THEN elBoxShadow
                          ELSE StyleBoxShadow(elStyle')
        /\ UNCHANGED <<engineVars, contextVars, cardImpl, cardProps, lastEvent,
                       callerCalled, shellVars, hookRender, registry,
                       providerVars>>

\* A Card mounted with a style prop under a settled provider and theme.
InitCardStyle ==
    /\ last = NoCall
    /\ pinned = NoCall
    /\ themeColor = DefaultColor
    /\ effectPreset \in PresetIds
    /\ enable3D = (effectPreset = "3d")
    /\ ProviderAtRest(effectPreset)
    /\ mode \in {"dark", "light"}
    /\ ShellAtRest(mode)
    /\ cardImpl \in {"presets", "legacy"}
    /\ cardProps = NoProps
    /\ propsStyle \in CallerStyles
    /\ elStyle = CardStyle(cardImpl, effectPreset, enable3D, mode = "dark",
                           propsStyle)
    /\ elBoxShadow = StyleBoxShadow(elStyle)
    /\ lastEvent = "none"
    /\ callerCalled = FALSE

NextCardStyle ==
    \/ CallerRerenders
    \/ PointerEnter
    \/ PointerLeave

SpecCardStyle == InitCardStyle /\ [][NextCardStyle]_vars

\* ------------------------------------- hooks rendering as the theme changes

\* Theme colors the color provider moves between, and the options the
\* components pass to the hooks.
ThemeColors == {DefaultColor, [h |-> 0, s |-> 100, l |-> 5],
                [h |-> 0, s |-> 100, l |-> 95]}
HookOptions == {NoOptions, CardOptions, [has |-> TRUE, intensity |-> 0],
                [has |-> TRUE, intensity |-> MaxIntensity]}

\* Mutant: the colored hook's call remembers a supplied intensity as the
\* preset's registry default.
RenderColoredHook_storingIntensity ==
    \E preset \in PresetIds, isDark \in BOOLEAN, options \in HookOptions :
        /\ last' = Call("getEffectStyles", preset, themeColor, isDark, options,
                        getEffectStyles(preset, themeColor, isDark, options))
        /\ registry' = IF options.has /\ ConfigDefined(preset)
                       THEN [registry EXCEPT
                                ![preset].intensity = options.intensity]
                       ELSE registry
        /\ UNCHANGED <<pinned, themeColor, contextVars, cardVars, shellVars, renderVars,
                       providerVars>>

\* useEffectPresets(color, options) rendered with the theme color.
RenderColoredHook ==
    \E preset \in PresetIds, isDark \in BOOLEAN, options \in HookOptions :
        /\ last' = Call("getEffectStyles", preset, themeColor, isDark, options,
                        getEffectStyles(preset, themeColor, isDark, options))
        /\ UNCHANGED <<pinned, themeColor, contextVars, cardVars, shellVars, renderVars, registry,
                       providerVars>>

\* useNeutralEffectPresets(options): no color is passed on.
RenderNeutralHook ==
    \E preset \in PresetIds, isDark \in BOOLEAN, options \in HookOptions :
        /\ last' = Call("getNeutralEffectStyles", preset, NoColor, isDark,
                        options, getNeutralEffectStyles(preset, isDark, options))
        /\ UNCHANGED <<pinned, themeColor, contextVars, cardVars, shellVars, renderVars, registry,
                       providerVars>>

\* The user picks another theme color.
SetThemeColor ==
    /\ themeColor' \in ThemeColors \ {themeColor}
    /\ UNCHANGED <<last, pinned, contextVars, cardVars, shellVars, renderVars, registry, providerVars>>

\* An observer keeps the latest call to compare later calls with.
Pin ==
    /\ last # NoCall
    /\ pinned' = last
    /\ UNCHANGED <<last, themeColor, contextVars, cardVars, shellVars, renderVars, registry,
                   providerVars>>

NextHooks ==
    \/ RenderColoredHook
    \/ RenderNeutralHook
    \/ SetThemeColor
    \/ Pin

SpecHooks == Init /\ [][NextHooks]_vars

\* ---------------------------------------------- what the preset hooks return

\* A component renders useEffectPresets(color, options) under the provider's
\* preset and the theme's mode.
UseEffectPresets ==
    \E color \in ThemeColors, options \in HookOptions :
        /\ hookRender' =
              [fn |-> "useEffectPresets", preset |-> effectPreset,
               color |-> color, isDark |-> (mode = "dark"), options |-> options,
               out |-> useEffectPresets(effectPreset, color, mode = "dark",
                                        options)]
        /\ UNCHANGED <<engineVars, contextVars, cardVars, shellVars, propsStyle,
                       elStyle, registry, providerVars>>

\* A component renders useNeutralEffectPresets(options).
UseNeutralEffectPresets ==
    \E options \in HookOptions :
        /\ hookRender' =
              [fn |-> "useNeutralEffectPresets", preset |-> effectPreset,
               color |-> NoColor, isDark |-> (mode = "dark"),
               options |-> options,
               out |-> useNeutralEffectPresets(effectPreset, mode = "dark",
                                               options)]
        /\ UNCHANGED <<engineVars, contextVars, cardVars, shellVars, propsStyle,
                       elStyle, registry, providerVars>>

\* A settled provider holding any preset it can hold, under either theme.
InitHookResults ==
    /\ last = NoCall
    /\ pinned = NoCall
    /\ themeColor = DefaultColor
    /\ effectPreset \in PresetIds
    /\ enable3D = (effectPreset = "3d")
    /\ ProviderAtRest(effectPreset)
    /\ mode \in ThemeModes
    /\ ShellAtRest(mode)
    /\ cardImpl = "presets"
    /\ cardProps = NoProps
    /\ elBoxShadow = <<>>
    /\ lastEvent = "none"
    /\ callerCalled = FALSE
    /\ propsStyle = NoStyle
    /\ elStyle = EmptyStyle

NextHookResults ==
    \/ UseEffectPresets
    \/ UseNeutralEffectPresets

SpecHookResults == InitHookResults /\ [][NextHookResults]_vars

\* --------------------------------- every hook rendering with the theme color

\* use3DEffects(color, options) rendered with the theme color: the call is
\* made only while enable3D holds.
RenderLegacyColoredHook ==
    \E options \in HookOptions :
        /\ enable3D
        /\ last' = Call("get3DEffects", "3d", themeColor, FALSE, options,
                        get3DEffects(themeColor.h, themeColor.s, themeColor.l,
                                     options))
        /\ UNCHANGED <<pinned, themeColor, contextVars, cardVars, shellVars, renderVars, registry,
                       providerVars>>

\* use3DEffectsNeutral(isDark, options)
RenderLegacyNeutralHook ==
    \E isDark \in BOOLEAN, options \in HookOptions :
        /\ enable3D
        /\ last' = Call("get3DEffectsNeutral", "3d", NoColor, isDark, options,
                        get3DEffectsNeutral(isDark, options))
        /\ UNCHANGED <<pinned, themeColor, contextVars, cardVars, shellVars, renderVars, registry,
                       providerVars>>

NextFrame ==
    \/ RenderColoredHook
    \/ RenderNeutralHook
    \/ RenderLegacyColoredHook
    \/ RenderLegacyNeutralHook
    \/ SetThemeColor

SpecFrame == Init /\ [][NextFrame]_vars

\* ------------------------------------------------- DesignSystemProvider
\* The provider's effectPreset and enable3D cells, the two effects that
\* touch them and the two setters.  React runs the effects of a commit in
\* declaration order before it handles the next event; a state setter
\* queues its value for the next render, where the last value queued for a
\* cell wins.  (The buttonTextColor and borderRadius cells are separate
\* state with effects of their own and are left out; their getItem calls in
\* the load effect throw together with the others.)

\* The strings the load effect accepts as a saved preset.
ValidSaved == {"3d", "glassmorphism", "flat", "monochromatic"}

\* What storage can hold when the provider mounts: nothing, what a sync
\* effect wrote, or what an earlier version or a foreign writer left: no
\* preset or an unknown one, with or without an enable3D item.
InitialStorages ==
    {Persisted(p) : p \in ValidSaved}
        \cup {[effectPreset |-> e, enable3D |-> v] :
                e \in {Missing, "neon"}, v \in {Missing, "true", "false", "1"}}

\* useEffect(..., [effectPreset]): set --enable-3d, then inside one try:
\* store effectPreset, store enable3D, setEnable3DState.  A throwing setItem
\* skips what follows it in the try block.
RunSyncEffect ==
    /\ pendingEffects # <<>> /\ Head(pendingEffects) = "sync"
    /\ pendingEffects' = Tail(pendingEffects)
    /\ LET is3DEnabled == effectPreset = "3d"
       IN  /\ cssEnable3D' = IF is3DEnabled THEN "1" ELSE "0"
           /\ IF storageEnv = "ok"
              THEN /\ storage' = [effectPreset |-> effectPreset,
                                  enable3D |-> BoolString(is3DEnabled)]
                   /\ pendingEnable3D' = <<is3DEnabled>>
                   /\ firstPassWrote' = IF firstPassWrote = "(pending)"
                                        THEN effectPreset ELSE firstPassWrote
              ELSE /\ firstPassWrote' = IF firstPassWrote = "(pending)"
                                        THEN "(nothing)" ELSE firstPassWrote
                   /\ UNCHANGED <<storage, pendingEnable3D>>
    /\ UNCHANGED <<engineVars, contextVars, cardVars, shellVars, renderVars, registry, storageEnv,
                   pendingPreset, mountStorage, touched,
                   lastSetter>>

\* useEffect(..., []): the load effect, all inside one try.
RunLoadEffect ==
    /\ pendingEffects # <<>> /\ Head(pendingEffects) = "load"
    /\ pendingEffects' = Tail(pendingEffects)
    /\ LET savedEffectPreset == storage.effectPreset
           savedEnable3D == storage.enable3D
           enabled == savedEnable3D = "true"
       IN  IF storageEnv = "unavailable"
           THEN UNCHANGED <<pendingPreset, pendingEnable3D>>
           ELSE IF savedEffectPreset # Missing /\ savedEffectPreset \in ValidSaved
           THEN /\ pendingPreset' = <<savedEffectPreset>>
                /\ pendingEnable3D' = <<savedEffectPreset # "flat"
                                         /\ savedEffectPreset # "monochromatic">>
           ELSE IF savedEnable3D # Missing
           THEN /\ pendingEnable3D' = <<enabled>>
                /\ pendingPreset' = <<IF enabled THEN "3d" ELSE "flat">>
           ELSE UNCHANGED <<pendingPreset, pendingEnable3D>>
    /\ UNCHANGED <<engineVars, contextVars, cardVars, shellVars, renderVars, registry, storage,
                   storageEnv, cssEnable3D, mountStorage, firstPassWrote,
                   touched,
                   lastSetter>>

\* Mutant: the render schedules no effect, as if the sync effect had no
\* dependency on effectPreset.
Rerender_withoutEffects ==
    /\ pendingEffects = <<>>
    /\ pendingPreset # <<>> \/ pendingEnable3D # <<>>
    /\ effectPreset' = IF pendingPreset # <<>> THEN pendingPreset[1]
                       ELSE effectPreset
    /\ enable3D' = IF pendingEnable3D # <<>> THEN pendingEnable3D[1]
                   ELSE enable3D
    /\ pendingPreset' = <<>>
    /\ pendingEnable3D' = <<>>
    /\ pendingEffects' = <<>>
    /\ UNCHANGED <<engineVars, mode, cardVars, shellVars, renderVars, registry, storage, storageEnv,
                   cssEnable3D, mountStorage, firstPassWrote, touched,
                   lastSetter>>

\* The render that applies the queued values; the sync effect is scheduled
\* when effectPreset differs from the previous render's.
Rerender ==
    /\ pendingEffects = <<>>
    /\ pendingPreset # <<>> \/ pendingEnable3D # <<>>
    /\ effectPreset' = IF pendingPreset # <<>> THEN pendingPreset[1]
                       ELSE effectPreset
    /\ enable3D' = IF pendingEnable3D # <<>> THEN pendingEnable3D[1]
                   ELSE enable3D
    /\ pendingPreset' = <<>>
    /\ pendingEnable3D' = <<>>
    /\ pendingEffects' = IF effectPreset' # effectPreset THEN <<"sync">> ELSE <<>>
    /\ UNCHANGED <<engineVars, mode, cardVars, shellVars, renderVars, registry, storage, storageEnv,
                   cssEnable3D, mountStorage, firstPassWrote, touched,
                   lastSetter>>

\* setEffectPreset(preset), called from an event handler.
SetEffectPreset ==
    \E preset \in PresetIds :
        /\ pendingEffects = <<>>
        /\ pendingPreset' = <<preset>>
        /\ touched' = TRUE
        /\ lastSetter' = "setEffectPreset"
        /\ UNCHANGED <<engineVars, contextVars, cardVars, shellVars, renderVars, registry, storage,
                       storageEnv, pendingEffects, pendingEnable3D, cssEnable3D,
                       mountStorage, firstPassWrote>>

\* Mutant: setEnable3D only sets the flag and leaves the preset alone.
SetEnable3D_flagOnly ==
    \E enabled \in BOOLEAN :
        /\ pendingEffects = <<>>
        /\ pendingEnable3D' = <<enabled>>
        /\ touched' = TRUE
        /\ lastSetter' = IF enabled THEN "setEnable3D(true)"
                          ELSE "setEnable3D(false)"
        /\ UNCHANGED <<engineVars, contextVars, cardVars, shellVars, renderVars, registry, storage,
                       storageEnv, pendingEffects, pendingPreset, cssEnable3D,
                       mountStorage, firstPassWrote>>

\* setEnable3D(enabled)
SetEnable3D ==
    \E enabled \in BOOLEAN :
        /\ pendingEffects = <<>>
        /\ pendingEnable3D' = <<enabled>>
        /\ pendingPreset' = <<IF enabled THEN "3d" ELSE "flat">>
        /\ touched' = TRUE
        /\ lastSetter' = IF enabled THEN "setEnable3D(true)"
                          ELSE "setEnable3D(false)"
        /\ UNCHANGED <<engineVars, contextVars, cardVars, shellVars, renderVars, registry, storage,
                       storageEnv, pendingEffects, cssEnable3D, mountStorage,
                       firstPassWrote>>

\* The first commit: state at its defaults, both effects still to run.
InitProvider ==
    /\ last = NoCall
    /\ pinned = NoCall
    /\ themeColor = DefaultColor
    /\ effectPreset = "3d"
    /\ enable3D = TRUE
    /\ mode = "light"
    /\ cardImpl = "presets"
    /\ cardProps = NoProps
    /\ elBoxShadow = <<>>
    /\ lastEvent = "none"
    /\ callerCalled = FALSE
    /\ registry = EFFECT_PRESETS
    /\ storageEnv \in StorageEnvs
    /\ storage \in IF storageEnv = "unavailable" THEN {EmptyStorage}
                   ELSE InitialStorages
    /\ mountStorage = storage
    /\ pendingEffects = <<"load", "sync">>
    /\ pendingPreset = <<>>
    /\ pendingEnable3D = <<>>
    /\ cssEnable3D = "(unset)"
    /\ firstPassWrote = "(pending)"
    /\ touched = FALSE
    /\ lastSetter = "(none)"
    /\ ShellAtRest("light")
    /\ propsStyle = NoStyle
    /\ elStyle = EmptyStyle

NextProvider ==
    \/ RunLoadEffect
    \/ RunSyncEffect
    \/ Rerender
    \/ SetEffectPreset
    \/ SetEnable3D

SpecProvider == InitProvider /\ [][NextProvider]_vars

\* Nothing queued and no effect left to run.
Settled ==
    /\ pendingEffects = <<>>
    /\ pendingPreset = <<>>
    /\ pendingEnable3D = <<>>

\* ------------------------------------------------- observing a call

Clamp02(n) == Max(0, Min(20, n))
Supplied(i) == [has |-> TRUE, intensity |-> i]

Returns(c) == ~c.out.threw
IsColored(c, preset) == c.fn = "getEffectStyles" /\ c.preset = preset
IsNeutral(c, preset) == c.fn = "getNeutralEffectStyles" /\ c.preset = preset

\* Alpha of the i-th layer of a box-shadow value.
Alpha(shadow, i) == shadow[i].color.a

\* The colored 3D output of either module as one record: the gradient
\* stops, the three base layers and the three hover layers.
Is3DColored(c) == c.fn = "get3DEffects" \/ IsColored(c, "3d")

View3D(c, out) ==
    IF c.fn = "get3DEffects"
    THEN [top |-> out.value.gradient[1].top, bottom |-> out.value.gradient[1].bottom,
          base |-> out.value.shadow \o out.value.glow,
          hover |-> out.value.shadowHover \o out.value.glowHover]
    ELSE [top |-> out.value.background[1].top,
          bottom |-> out.value.background[1].bottom,
          base |-> out.value.boxShadow,
          hover |-> out.value.boxShadowHover]

\* The same call with another supplied intensity.
At(c, i) ==
    IF c.fn = "get3DEffects"
    THEN get3DEffects(c.color.h, c.color.s, c.color.l, Supplied(i))
    ELSE getEffectStyles(c.preset, c.color, c.isDark, Supplied(i))

\* The intensity a colored 3D call ends up using on its route.
Effective3D(c) ==
    LET given == IF c.options.has THEN c.options.intensity ELSE 10
    IN  IF c.fn = "get3DEffects" THEN Clamp02(given) ELSE given

Spread(v) == v.top.l - v.bottom.l

\* --------------------------------------------------------------- claims

\* C1: for a preset identifier outside {3d, glassmorphism, flat}, whatever
\* the color, the mode and the options (intensity supplied or omitted),
\* getEffectStyles returns exactly the colored Flat output and
\* getNeutralEffectStyles exactly the neutral Flat output, and neither throws.
C1_UnknownPresetFallsBackToFlat ==
    /\ (last.fn = "getEffectStyles" /\ last.preset \notin EffectPreset)
          => last.out = Returned(getFlatStyles(last.color))
    /\ (last.fn = "getNeutralEffectStyles" /\ last.preset \notin EffectPreset)
          => last.out = Returned(getNeutralFlatStyles(last.isDark))

\* C2: the colored 3D derivation clamps its intensity to [0,2] on every
\* route: the output of get3DEffects and of getEffectStyles("3d") for a
\* supplied intensity i equals the output for min(2, max(0, i)).
C2_Colored3DClampsOnEveryRoute ==
    /\ (last.fn = "get3DEffects" /\ last.options.has)
          => last.out = get3DEffects(last.color.h, last.color.s, last.color.l,
                                     Supplied(Clamp02(last.options.intensity)))
    /\ (IsColored(last, "3d") /\ last.options.has)
          => last.out = getEffectStyles("3d", last.color, last.isDark,
                                        Supplied(Clamp02(last.options.intensity)))

\* C3 as stated: every derivation other than colored 3D (neutral 3D in both
\* modules, colored and neutral glassmorphism) uses the supplied intensity
\* unclamped: its shadow alpha is the coefficient times the supplied
\* intensity.
C3_OthersUnclampedAsStated ==
    LET i == last.options.intensity
    IN  last.options.has =>
          /\ IsNeutral(last, "3d") =>
                Alpha(last.out.value.boxShadow, 1)
                    = (IF last.isDark THEN 15 ELSE 8) * i
          /\ last.fn = "get3DEffectsNeutral" =>
                Alpha(last.out.value.shadow, 1)
                    = (IF last.isDark THEN 15 ELSE 8) * i
          /\ (IsColored(last, "glassmorphism") \/ IsNeutral(last, "glassmorphism")) =>
                Alpha(last.out.value.boxShadow, 1)
                    = (IF last.isDark THEN 15 ELSE 12) * i

\* C3 amended: the neutral 3D derivation of the preset module and both
\* glassmorphism derivations use the supplied intensity unclamped (shadow
\* alpha = coefficient times the supplied intensity, base and hover);
\* get3DEffectsNeutral of the legacy module clamps it to [0,2].
C3_OthersUnclamped ==
    LET i == last.options.intensity
    IN  last.options.has =>
          /\ IsNeutral(last, "3d") =>
                /\ Alpha(last.out.value.boxShadow, 1)
                      = (IF last.isDark THEN 15 ELSE 8) * i
                /\ Alpha(last.out.value.boxShadowHover, 1)
                      = (IF last.isDark THEN 20 ELSE 12) * i
          /\ last.fn = "get3DEffectsNeutral" =>
                Alpha(last.out.value.shadow, 1)
                    = (IF last.isDark THEN 15 ELSE 8) * Clamp02(i)
          /\ (IsColored(last, "glassmorphism") \/ IsNeutral(last, "glassmorphism")) =>
                /\ Alpha(last.out.value.boxShadow, 1)
                      = (IF last.isDark THEN 15 ELSE 12) * i
                /\ Alpha(last.out.value.boxShadowHover, 1)
                      = (IF last.isDark THEN 20 ELSE 16) * i

\* C4: for a Card with effects applied and preset, mode and intensity held
\* fixed, after any sequence of pointer-enter and pointer-leave events the
\* element's box-shadow is the hover value if the last event was an enter
\* and exactly the base value if it was a leave.
C4_HoverSwapsAndRestores ==
    Render.apply =>
        /\ lastEvent = "enter" => elBoxShadow = Render.hover
        /\ lastEvent = "leave" => elBoxShadow = Render.base

C3_Witness ==
    /\ IsNeutral(last, "3d")
    /\ last.isDark
    /\ last.options = Supplied(MaxIntensity)
    /\ Alpha(last.out.value.boxShadow, 1) = 15 * MaxIntensity
    /\ MaxIntensity > 20

\* C6: for colored glassmorphism, whatever the color, the mode and the
\* intensity, the fill opacity of the background is
\* min(0.4, baseOpacity * intensity), baseOpacity 0.25 dark and 0.20 light,
\* and so never exceeds 0.4.
C6_GlassOpacityCapped ==
    IsColored(last, "glassmorphism") =>
        LET i == IF last.options.has THEN last.options.intensity ELSE 8
            a == last.out.value.background[1].a
        IN  /\ Returns(last)
            /\ a = Min(400, (IF last.isDark THEN 25 ELSE 20) * i)
            /\ a <= 400

\* A colored glassmorphism call whose uncapped product exceeds 0.4.
C6_Witness ==
    /\ IsColored(last, "glassmorphism")
    /\ last.isDark
    /\ last.options = Supplied(MaxIntensity)
    /\ 25 * MaxIntensity > 400
    /\ last.out.value.background[1].a = 400

\* C7: colored 3D with intensity 0: both gradient stops equal the input
\* lightness and every shadow and glow alpha, base and hover, is 0.
C7_ZeroIntensityIsDegenerate ==
    (Is3DColored(last) /\ last.options = Supplied(0)) =>
        LET v == View3D(last, last.out)
        IN  /\ Returns(last)
            /\ v.top.l = 10 * last.color.l
            /\ v.bottom.l = 10 * last.color.l
            /\ \A k \in 1..3 : Alpha(v.base, k) = 0 /\ Alpha(v.hover, k) = 0

\* getEffectStyles("3d") called with intensity 0 on a mid-range lightness.
C7_Witness ==
    /\ IsColored(last, "3d")
    /\ last.options = Supplied(0)
    /\ last.color.l = 58
    /\ last.out.value.background[1].top.l = 580
    /\ last.out.value.background[1].bottom.l = 580

\* C8: colored 3D, any color, intensities 0 <= i1 < i2 within the clamp
\* range: every shadow and glow alpha at i2 is strictly greater than at i1,
\* and the gradient spread (top minus bottom stop) at i2 is strictly greater
\* than at i1 as long as neither stop has reached its 0/100 bound.
C8_StrictlyMonotoneInIntensity ==
    (Is3DColored(last) /\ last.options.has) =>
        LET i2 == last.options.intensity
            v2 == View3D(last, last.out)
        IN  \A i1 \in Intensities :
                (0 <= i1 /\ i1 < i2 /\ i2 <= 20) =>
                    LET v1 == View3D(last, At(last, i1))
                    IN  /\ \A k \in 1..3 :
                              /\ Alpha(v2.base, k) > Alpha(v1.base, k)
                              /\ Alpha(v2.hover, k) > Alpha(v1.hover, k)
                        /\ (v2.top.l < 1000 /\ v2.bottom.l > 0)
                              => Spread(v2) > Spread(v1)

\* get3DEffects at the top of the clamp range, with lower intensities to
\* compare against and neither stop at its bound.
C8_Witness ==
    /\ last.fn = "get3DEffects"
    /\ last.options = Supplied(20)
    /\ last.color.l = 58
    /\ {16, 17} \subseteq Intensities
    /\ Spread(View3D(last, last.out)) = 400
    /\ Alpha(last.out.value.glow, 1) = 400

\* C9: for every enumerated preset the registry lookup is defined and both
\* dispatch functions use options.intensity when one is supplied (0
\* included) and the registry default (1.0 for 3d, 0.8 for glassmorphism,
\* 0 for flat) when none is; 3d routes to the 3D derivation, glassmorphism
\* to the glassmorphism derivation and flat to the Flat derivation.
C9_DispatchAndDefaults ==
    LET i(d) == IF last.options.has THEN last.options.intensity ELSE d
    IN  /\ \A p \in {"3d", "glassmorphism", "flat"} : ConfigDefined(p)
        /\ IsColored(last, "3d") =>
              last.out = Returned(get3DEffectStyles(last.color, i(10)))
        /\ IsColored(last, "glassmorphism") =>
              last.out = Returned(
                 getGlassmorphismStyles(last.color, last.isDark, i(8)))
        /\ IsColored(last, "flat") =>
              last.out = Returned(getFlatStyles(last.color))
        /\ IsNeutral(last, "3d") =>
              last.out = Returned(getNeutral3DEffectStyles(last.isDark, i(10)))
        /\ IsNeutral(last, "glassmorphism") =>
              last.out = Returned(
                 getNeutralGlassmorphismStyles(last.isDark, i(8)))
        /\ IsNeutral(last, "flat") =>
              last.out = Returned(getNeutralFlatStyles(last.isDark))

\* Neutral glassmorphism without an override: blur 16 + 8 * 0.8 px.
C9_Witness ==
    /\ IsNeutral(last, "glassmorphism")
    /\ ~last.options.has
    /\ last.out.value.backdropFilter[1].px = 224

\* C10: colored 3D with effective intensity i and color (h,s,l): gradient
\* from lightness min(100, l + 10i) to max(0, l - 10i), hue and saturation
\* unchanged; every layer tinted with the unmodified l; base boxShadow = the
\* two shadow layers (4i/12i/0.3i and 2i/4i/0.2i) then the glow (20i, 0.2i).
\* For (114,100,58) at i = 1: stops 68 and 48, alphas 0.3, 0.2, 0.2.
C10_Colored3DFormula ==
    Is3DColored(last) =>
        LET i == Effective3D(last)
            h == last.color.h
            s == last.color.s
            l == 10 * last.color.l
            v == View3D(last, last.out)
        IN  /\ Returns(last)
            /\ v.top = Hsl(h, s, Min(1000, l + 10 * i))
            /\ v.bottom = Hsl(h, s, Max(0, l - 10 * i))
            /\ v.base = <<Layer(FALSE, <<0, 4 * i, 12 * i>>, Hsla(h, s, l, 30 * i)),
                          Layer(FALSE, <<0, 2 * i, 4 * i>>, Hsla(h, s, l, 20 * i)),
                          Layer(FALSE, <<0, 0, 20 * i>>, Hsla(h, s, l, 20 * i))>>
            /\ (last.color = [h |-> 114, s |-> 100, l |-> 58] /\ i = 10) =>
                  /\ v.top.l = 680
                  /\ v.bottom.l = 480
                  /\ <<Alpha(v.base, 1), Alpha(v.base, 2), Alpha(v.base, 3)>>
                        = <<300, 200, 200>>

\* The worked example through the dispatch layer, by the registry default.
C10_Witness ==
    /\ IsColored(last, "3d")
    /\ ~last.options.has
    /\ last.color = [h |-> 114, s |-> 100, l |-> 58]
    /\ last.out.value.background[1].top.l = 680
    /\ Len(last.out.value.boxShadow) = 3

\* ------------------------------------------- observing the other derivations

\* The same call repeated with another supplied intensity.
AtAny(c, i) ==
    CASE c.fn = "getEffectStyles" ->
            getEffectStyles(c.preset, c.color, c.isDark, Supplied(i))
      [] c.fn = "getNeutralEffectStyles" ->
            getNeutralEffectStyles(c.preset, c.isDark, Supplied(i))
      [] c.fn = "get3DEffects" ->
            get3DEffects(c.color.h, c.color.s, c.color.l, Supplied(i))
      [] OTHER -> get3DEffectsNeutral(c.isDark, Supplied(i))

\* The intensity a glassmorphism call uses: supplied, else the registry's 0.8.
EffectiveGlass(c) == IF c.options.has THEN c.options.intensity ELSE 8

IsGlass(c) == IsColored(c, "glassmorphism") \/ IsNeutral(c, "glassmorphism")

\* The neutral 3D output of either module as one record.
Is3DNeutral(c) == c.fn = "get3DEffectsNeutral" \/ IsNeutral(c, "3d")

ViewNeutral3D(c, out) ==
    IF c.fn = "get3DEffectsNeutral"
    THEN [top |-> out.value.gradient[1].top, bottom |-> out.value.gradient[1].bottom,
          base |-> out.value.shadow, hover |-> out.value.shadowHover,
          glow |-> out.value.glow \o out.value.glowHover]
    ELSE [top |-> out.value.background[1].top,
          bottom |-> out.value.background[1].bottom,
          base |-> out.value.boxShadow, hover |-> out.value.boxShadowHover,
          glow |-> <<>>]

\* The intensity a neutral 3D call ends up using on its route.
EffectiveNeutral3D(c) ==
    IF c.fn = "get3DEffectsNeutral"
    THEN Clamp02(IF c.options.has THEN c.options.intensity ELSE 7)
    ELSE IF c.options.has THEN c.options.intensity ELSE 10

\* The colored 3D output of the same module at a supplied intensity.
ColoredCounterpart(c, color, i) ==
    IF c.fn = "get3DEffectsNeutral"
    THEN [top |-> Hsl(0, 0, 0), bottom |-> Hsl(0, 0, 0),
          base |-> get3DEffects(color.h, color.s, color.l, Supplied(i)).value.shadow,
          hover |->
             get3DEffects(color.h, color.s, color.l, Supplied(i)).value.shadowHover]
    ELSE [top |-> Hsl(0, 0, 0), bottom |-> Hsl(0, 0, 0),
          base |->
             getEffectStyles("3d", color, c.isDark, Supplied(i)).value.boxShadow,
          hover |->
             getEffectStyles("3d", color, c.isDark, Supplied(i)).value.boxShadowHover]

\* C11: colored 3D, effective intensity i: the hover variant is written in
\* terms of i alone: shadow layers 6i/20i/0.4i and 4i/8i/0.3i, glow blur 30i
\* alpha 0.3i; for i > 0 each hover offset, blur and alpha is strictly
\* greater than the base value of the same layer.
C11_HoverExceedsBase ==
    Is3DColored(last) =>
        LET i == Effective3D(last)
            h == last.color.h
            s == last.color.s
            l == 10 * last.color.l
            v == View3D(last, last.out)
        IN  /\ Returns(last)
            /\ v.hover =
                  <<Layer(FALSE, <<0, 6 * i, 20 * i>>, Hsla(h, s, l, 40 * i)),
                    Layer(FALSE, <<0, 4 * i, 8 * i>>, Hsla(h, s, l, 30 * i)),
                    Layer(FALSE, <<0, 0, 30 * i>>, Hsla(h, s, l, 30 * i))>>
            /\ i > 0 =>
                  /\ \A k \in 1..2 : v.hover[k].lens[2] > v.base[k].lens[2]
                  /\ \A k \in 1..3 :
                        /\ v.hover[k].lens[3] > v.base[k].lens[3]
                        /\ Alpha(v.hover, k) > Alpha(v.base, k)

\* The dispatch route above the clamp range: hover 18px/60px over 12px/36px.
C11_Witness ==
    /\ IsColored(last, "3d")
    /\ last.options = Supplied(MaxIntensity)
    /\ last.out.value.boxShadowHover[1].lens = <<0, 6 * MaxIntensity, 20 * MaxIntensity>>
    /\ last.out.value.boxShadow[1].lens = <<0, 4 * MaxIntensity, 12 * MaxIntensity>>
    /\ MaxIntensity > 0

\* C12: colored glassmorphism with intensity i: backdrop filter
\* blur(16 + 8i px) saturate(180%) brightness(1.05); base shadow offset 8px
\* blur 32px alpha 0.15i dark, 0.12i light; hover shadow offset 12px blur
\* 40px alpha 0.2i dark, 0.16i light; border 1px solid white with alpha 0.4i
\* dark, 0.3i light.
C12_ColoredGlassFormula ==
    IsColored(last, "glassmorphism") =>
        LET i == EffectiveGlass(last)
            d == last.isDark
            o == last.out.value
        IN  /\ Returns(last)
            /\ o.backdropFilter = <<[fn |-> "blur", px |-> 160 + 8 * i],
                                    [fn |-> "saturate", pct |-> 180],
                                    [fn |-> "brightness", v |-> 105]>>
            /\ o.boxShadow[1] =
                  Layer(FALSE, <<0, 80, 320>>,
                        Rgba(0, 0, 0, (IF d THEN 15 ELSE 12) * i))
            /\ o.boxShadowHover[1] =
                  Layer(FALSE, <<0, 120, 400>>,
                        Rgba(0, 0, 0, (IF d THEN 20 ELSE 16) * i))
            /\ o.border =
                  <<[width |-> 10, style |-> "solid",
                     color |-> Rgba(255, 255, 255, (IF d THEN 40 ELSE 30) * i)]>>

\* Dark colored glass at intensity 1.0: blur 24px, border alpha 0.4.
C12_Witness ==
    /\ IsColored(last, "glassmorphism")
    /\ last.isDark
    /\ last.options = Supplied(10)
    /\ last.out.value.backdropFilter[1].px = 240
    /\ last.out.value.border[1].color.a = 400
    /\ Alpha(last.out.value.boxShadowHover, 1) = 200

\* C13: in the colored and in the neutral glassmorphism derivation the inset
\* top highlight (second layer of the shadow) is white with alpha 0.1 dark,
\* 0.2 light in the base value and 0.15 dark, 0.25 light in the hover value,
\* and is the same at every intensity.
C13_HighlightIgnoresIntensity ==
    IsGlass(last) =>
        LET d == last.isDark
            o == last.out.value
        IN  /\ Returns(last)
            /\ Len(o.boxShadow) = 2 /\ Len(o.boxShadowHover) = 2
            /\ o.boxShadow[2] =
                  Layer(TRUE, <<0, 10, 0>>,
                        Rgba(255, 255, 255, IF d THEN 100 ELSE 200))
            /\ o.boxShadowHover[2] =
                  Layer(TRUE, <<0, 10, 0>>,
                        Rgba(255, 255, 255, IF d THEN 150 ELSE 250))
            /\ \A j \in Intensities :
                  /\ AtAny(last, j).value.boxShadow[2] = o.boxShadow[2]
                  /\ AtAny(last, j).value.boxShadowHover[2] = o.boxShadowHover[2]

\* Neutral glass at intensity 0: the drop shadow has vanished, the highlight
\* has not.
C13_Witness ==
    /\ IsNeutral(last, "glassmorphism")
    /\ ~last.isDark
    /\ last.options = Supplied(0)
    /\ Alpha(last.out.value.boxShadow, 1) = 0
    /\ Alpha(last.out.value.boxShadow, 2) = 200
    /\ Alpha(last.out.value.boxShadowHover, 2) = 250

\* C14: the flat preset, whatever the intensity: boxShadow and boxShadowHover
\* are "none" and the result has no backdropFilter and no border; the colored
\* background is the opaque hsl of the input color in both modes; the
\* neutral background is rgb(23,23,23) dark and rgb(255,255,255) light.
C14_FlatIgnoresIntensity ==
    /\ IsColored(last, "flat") =>
          /\ last.out =
                Returned([background |->
                             <<Hsl(last.color.h, last.color.s, 10 * last.color.l)>>,
                          boxShadow |-> NoneValue,
                          boxShadowHover |-> NoneValue])
          /\ DOMAIN last.out.value \cap {"backdropFilter", "border"} = {}
    /\ IsNeutral(last, "flat") =>
          /\ last.out =
                Returned([background |->
                             <<IF last.isDark THEN Rgb(23, 23, 23)
                               ELSE Rgb(255, 255, 255)>>,
                          boxShadow |-> NoneValue,
                          boxShadowHover |-> NoneValue])
          /\ DOMAIN last.out.value \cap {"backdropFilter", "border"} = {}

\* Colored flat in dark mode with the largest intensity supplied.
C14_Witness ==
    /\ IsColored(last, "flat")
    /\ last.isDark
    /\ last.options = Supplied(MaxIntensity)
    /\ last.color.l = 58
    /\ last.out.value.background = <<Hsl(last.color.h, 100, 580)>>
    /\ last.out.value.boxShadowHover = NoneValue

C16_NeutralNeverGlows ==
    Is3DNeutral(last) =>
        LET i == EffectiveNeutral3D(last)
            v == ViewNeutral3D(last, last.out)
        IN  /\ Returns(last)
            /\ Len(v.base) = 2 /\ Len(v.hover) = 2
            /\ \A k \in 1..2 : ~v.base[k].inset /\ ~v.hover[k].inset
            /\ v.glow = <<>>
            /\ Alpha(v.base, 1) = (IF last.isDark THEN 15 ELSE 8) * i
            /\ Alpha(v.base, 2) = (IF last.isDark THEN 10 ELSE 5) * i
            /\ i > 0 =>
                  \A color \in Colors, k \in 1..2 :
                     /\ Alpha(v.base, k)
                           < Alpha(ColoredCounterpart(last, color, i).base, k)
                     /\ Alpha(v.hover, k)
                           < Alpha(ColoredCounterpart(last, color, i).hover, k)

\* The legacy neutral call at the top of its range: alpha 0.3 against the
\* colored 0.6, and no glow.
C16_Witness ==
    /\ last.fn = "get3DEffectsNeutral"
    /\ last.isDark
    /\ last.options = Supplied(20)
    /\ last.out.value.glow = <<>>
    /\ last.out.value.glowHover = <<>>
    /\ Alpha(last.out.value.shadow, 1) = 300
    /\ Alpha(ColoredCounterpart(last, DefaultColor, 20).base, 1) = 600

\* C17: neutral glassmorphism: the background is rgba(255,255,255,0.05) in
\* both modes and at every intensity, and backdropFilter, boxShadow,
\* boxShadowHover and border equal those of colored glassmorphism called
\* with the same mode and options, whatever the color.
C17_NeutralGlassMatchesColored ==
    IsNeutral(last, "glassmorphism") =>
        LET o == last.out.value
        IN  /\ Returns(last)
            /\ o.background = <<Rgba(255, 255, 255, 50)>>
            /\ \A color \in Colors :
                  LET c == getEffectStyles("glassmorphism", color, last.isDark,
                                           last.options).value
                  IN  /\ o.backdropFilter = c.backdropFilter
                      /\ o.boxShadow = c.boxShadow
                      /\ o.boxShadowHover = c.boxShadowHover
                      /\ o.border = c.border

\* Dark neutral glass far above 1.0: the border alpha is 0.4 * 3.0 on both
\* sides while the neutral fill stays at 0.05.
C17_Witness ==
    /\ IsNeutral(last, "glassmorphism")
    /\ last.isDark
    /\ last.options = Supplied(MaxIntensity)
    /\ last.out.value.border[1].color.a = 40 * MaxIntensity
    /\ last.out.value.background[1].a = 50
    /\ getEffectStyles("glassmorphism", DefaultColor, TRUE,
                       Supplied(MaxIntensity)).value.border[1].color.a
          = 40 * MaxIntensity

\* C18: no derivation call changes anything outside its result: the
\* registry always holds the entries it was created with, and a step that
\* makes a call of getEffectStyles, getNeutralEffectStyles, get3DEffects or
\* get3DEffectsNeutral leaves the color record it was given and the registry
\* as they were before the call.
C18_CallsChangeNothingElse ==
    /\ [](registry = EFFECT_PRESETS)
    /\ [][last' # last => (themeColor' = themeColor /\ registry' = registry)]_vars

\* A colored call that read both the color record and the registry default,
\* made after the theme color was changed, with both still intact.
C18_Witness ==
    /\ IsColored(last, "glassmorphism")
    /\ ~last.options.has
    /\ last.color = themeColor
    /\ themeColor # DefaultColor
    /\ registry["glassmorphism"].intensity = 8
    /\ last.out.value.backdropFilter[1].px = 224

\* C19: enable3D is derived from effectPreset: after any sequence of
\* setEffectPreset and setEnable3D calls, once all pending effects have run,
\* enable3D is true exactly when effectPreset is "3d", in every storage
\* environment, one where localStorage.setItem throws included.
C19_Enable3DMirrorsPreset ==
    Settled => (enable3D <=> effectPreset = "3d")

C21_LegacyFlagMapsOntoPreset ==
    Settled =>
        /\ (/\ ~touched
            /\ storageEnv # "unavailable"
            /\ mountStorage.effectPreset \notin ValidSaved
            /\ mountStorage.enable3D # Missing)
              => effectPreset = IF mountStorage.enable3D = "true" THEN "3d"
                                ELSE "flat"
        /\ lastSetter = "setEnable3D(true)"
              => (effectPreset = "3d" /\ enable3D)
        /\ lastSetter = "setEnable3D(false)"
              => (effectPreset = "flat" /\ ~enable3D)

\* Mounted on a bare legacy item "true" (migrated to "3d"), then switched
\* off through setEnable3D(false).
C21_Witness ==
    /\ Settled
    /\ mountStorage = [effectPreset |-> Missing, enable3D |-> "true"]
    /\ lastSetter = "setEnable3D(false)"
    /\ effectPreset = "flat"
    /\ ~enable3D

\* C27: every value the provider's effectPreset can hold (the default, a
\* value loaded from storage, one produced by the legacy migration or by
\* setEnable3D) is a key of the EFFECT_PRESETS registry, so the lookup the
\* dispatch functions make for it is defined.
C27_ProviderPresetIsRegistered ==
    /\ ~touched => ConfigDefined(effectPreset)
    /\ (Settled /\ lastSetter \in {"setEnable3D(true)", "setEnable3D(false)"})
          => ConfigDefined(effectPreset)

\* C24: when a caller passes its own onMouseEnter and onMouseLeave to Card
\* while effects are applied, each pointer event both swaps the box-shadow
\* (hover value on enter, base value on leave) and invokes the caller's
\* handler.
C24_CallerHandlersRunToo ==
    (Render.apply /\ cardProps.onMouseEnter /\ cardProps.onMouseLeave) =>
        /\ lastEvent = "enter" => (elBoxShadow = Render.hover /\ callerCalled)
        /\ lastEvent = "leave" => (elBoxShadow = Render.base /\ callerCalled)

\* C25: when effects are applied and the caller passes a style prop to Card
\* (card.tsx), the rendered style is the caller's style merged at lower
\* priority: background, box-shadow, backdrop filter and border are the
\* effect values, the border radius is present, and every other key of the
\* caller's style is kept.
C25_CallerStyleMergedBelowEffects ==
    LET isDark == mode = "dark"
        r == CardRender("presets", effectPreset, enable3D, isDark)
        h == useNeutralEffectPresets(effectPreset, isDark, CardOptions).value
        effectKeys == {"background", "boxShadow", "backdropFilter", "border"}
    IN  (cardImpl = "presets" /\ r.apply /\ propsStyle.passed) =>
            /\ "background" \in DOMAIN elStyle
            /\ elStyle["background"] = h.background
            /\ "boxShadow" \in DOMAIN elStyle
            /\ elStyle["boxShadow"] = r.base
            /\ Truthy(h.backdropFilter) =>
                  /\ "backdropFilter" \in DOMAIN elStyle
                  /\ elStyle["backdropFilter"] = h.backdropFilter
            /\ Truthy(h.border) =>
                  /\ "border" \in DOMAIN elStyle
                  /\ elStyle["border"] = h.border
            /\ "borderRadius" \in DOMAIN elStyle
            /\ \A k \in DOMAIN propsStyle.style \ effectKeys :
                  k \in DOMAIN elStyle /\ elStyle[k] = propsStyle.style[k]

\* An intensity the caller supplied, within [0,2].
SuppliedInRange(options) ==
    options.has /\ options.intensity >= 0 /\ options.intensity <= 20

\* C28: the legacy 3D module and the preset module agree.  For every color,
\* either mode and every explicitly supplied intensity in [0,2],
\* getEffectStyles("3d") returns background = get3DEffects().gradient,
\* boxShadow = shadow followed by glow and boxShadowHover = shadowHover
\* followed by glowHover; getNeutralEffectStyles("3d") returns background,
\* boxShadow and boxShadowHover equal to get3DEffectsNeutral()'s gradient,
\* shadow and shadowHover.  Checked from either side of the pair.
C28_LegacyAndPresetModulesAgree ==
    LET o == last.options
        colored(styles, effects) ==
            /\ ~styles.threw /\ ~effects.threw
            /\ styles.value.background = effects.value.gradient
            /\ styles.value.boxShadow
                  = effects.value.shadow \o effects.value.glow
            /\ styles.value.boxShadowHover
                  = effects.value.shadowHover \o effects.value.glowHover
        neutral(styles, effects) ==
            /\ ~styles.threw /\ ~effects.threw
            /\ styles.value.background = effects.value.gradient
            /\ styles.value.boxShadow = effects.value.shadow
            /\ styles.value.boxShadowHover = effects.value.shadowHover
    IN  SuppliedInRange(o) =>
          /\ last.fn = "get3DEffects" =>
                \A isDark \in BOOLEAN :
                    colored(getEffectStyles("3d", last.color, isDark, o),
                            last.out)
          /\ (last.fn = "getEffectStyles" /\ last.preset = "3d") =>
                colored(last.out,
                        get3DEffects(last.color.h, last.color.s, last.color.l,
                                     o))
          /\ last.fn = "get3DEffectsNeutral" =>
                neutral(getNeutralEffectStyles("3d", last.isDark, o), last.out)
          /\ (last.fn = "getNeutralEffectStyles" /\ last.preset = "3d") =>
                neutral(last.out, get3DEffectsNeutral(last.isDark, o))

\* A preset call at the strongest intensity on a color whose top gradient
\* stop is capped, agreeing with the legacy module.
C28_Witness ==
    /\ last.fn = "getEffectStyles"
    /\ last.preset = "3d"
    /\ last.color.l = 95
    /\ last.options = Supplied(20)
    /\ ~last.out.threw
    /\ last.out.value.background
          = get3DEffects(last.color.h, last.color.s, 95, Supplied(20)).value.gradient

\* C22: in ThemeProvider the initial mode is the document's data-theme
\* attribute when it is "dark" or "light" and "light" otherwise; after any
\* sequence of setMode calls, once effects have run, the data-theme attribute
\* equals the current mode and the mode equals the last value passed to
\* setMode; when localStorage.setItem throws, the mode still changes and no
\* exception reaches the caller.
C22_ThemeFollowsSetMode ==
    /\ (lastSetMode = "(none)") =>
          mode = IF mountAttr \in {"dark", "light"} THEN mountAttr ELSE "light"
    /\ ThemeSettled =>
          /\ dataTheme = mode
          /\ lastSetMode # "(none)" => mode = lastSetMode
    /\ setModeOutcome # "threw"

\* A provider that started light under a storage that throws, and settled
\* dark after setMode("dark") with nothing written.
C22_Witness ==
    /\ ThemeSettled
    /\ storageEnv = "readonly"
    /\ mountAttr = "light"
    /\ lastSetMode = "dark"
    /\ setModeOutcome = "returned"
    /\ mode = "dark"
    /\ dataTheme = "dark"
    /\ themeItem = Missing

\* The breakpoints as the hooks' documentation states them.
WidthIsMobile == viewportWidth <= 768
WidthIsTablet == 769 <= viewportWidth /\ viewportWidth <= 1024

DerivedFor(hook) ==
    LET n == Nullish(hook.options, EFFECT_PRESETS[hook.preset].intensity)
    IN  IF hook.fn = "useEffectPresets"
        THEN CASE hook.preset = "3d" -> get3DEffectStyles(hook.color, n)
               [] hook.preset = "glassmorphism" ->
                     getGlassmorphismStyles(hook.color, hook.isDark, n)
               [] hook.preset = "flat" -> getFlatStyles(hook.color)
        ELSE CASE hook.preset = "3d" -> getNeutral3DEffectStyles(hook.isDark, n)
               [] hook.preset = "glassmorphism" ->
                     getNeutralGlassmorphismStyles(hook.isDark, n)
               [] hook.preset = "flat" -> getNeutralFlatStyles(hook.isDark)

\* What the claim states of one rendered hook.
HookReportsPreset(hook) ==
    /\ ~hook.out.threw
    /\ hook.out.value.isEnabled <=> (hook.preset # "flat")
    /\ (hook.out.value.styles = Null) <=> ~hook.out.value.isEnabled
    /\ hook.preset \in EffectPreset =>
          /\ hook.out.value.boxShadow = DerivedFor(hook).boxShadow
          /\ hook.out.value.boxShadowHover = DerivedFor(hook).boxShadowHover
          /\ hook.out.value.background = DerivedFor(hook).background
    /\ hook.preset = "flat" =>
          /\ hook.out.value.boxShadow = NoneValue
          /\ hook.out.value.boxShadowHover = NoneValue
          /\ hook.out.value.background
                = IF hook.fn = "useEffectPresets"
                  THEN <<Hsl(hook.color.h, hook.color.s, 10 * hook.color.l)>>
                  ELSE <<IF hook.isDark THEN Rgb(23, 23, 23)
                         ELSE Rgb(255, 255, 255)>>

\* C26: useEffectPresets and useNeutralEffectPresets report isEnabled true
\* exactly when the current preset is not "flat" and return styles null
\* exactly when isEnabled is false, while boxShadow, boxShadowHover and
\* background always carry the values derived for the current (preset, color
\* or mode, intensity), which for flat are "none", "none" and the flat fill.
C26_HooksReportPreset ==
    hookRender.fn # "none" => HookReportsPreset(hookRender)

=============================================================================
